---- MODULE Spec2Model ----
(***************************************************************************)
(* Model of MinetCreate.py: the network expansion (GetRawNetwork), the     *)
(* graph construction (AddCompoundNode, CheckConnection,                   *)
(* AddQuadReactionNode, ConstructNetwork) and the KEGG/MINE integration    *)
(* (KeggMineIntegration).                                                  *)
(*                                                                         *)
(* Identifiers and formulas are Python strings; they are modelled as       *)
(* sequences of one-character strings so that indexing, slicing, regular   *)
(* expression matching and sorting are computed on the characters.         *)
(* Python dictionaries are functions; an optional key is a key that may be *)
(* missing from the DOMAIN.                                                *)
(***************************************************************************)
EXTENDS Integers, Sequences, FiniteSets, TLC

VARIABLES
    \* ---- GetRawNetwork: arguments
    comp_id_list, step_limit, comp_limit, C_limit,
    \* ---- GetRawNetwork: locals
    comp_dict, rxn_dict, steps, comps,
    extended_comp_ids, unextended_comp_ids,
    rxn_exceeding_C_limit, comp_exceeding_C_limit, comp_cache,
    rxn_ids_to_download, comp_ids_to_download,
    seed_results,        \* results of the seed batch not yet looped over
    new_rxns,            \* results of the reaction batch not yet looped over
    new_rxn_comp_ids,    \* compounds of the admitted reaction not yet harvested
    pc,
    \* ---- ConstructNetwork: arguments and locals
    start_comp_ids, extra_kegg_ids,
    minetwork,           \* the nx.DiGraph: [node, edge, graph]
    via_construct,       \* TRUE: ConstructNetwork; FALSE: the same loops over a
                         \* bare nx.DiGraph(), as the tests call the two adders
    todo_comps,          \* sorted compound ids not yet looped over
    todo_rxns,           \* sorted reaction ids not yet looped over
    \* ---- KeggMineIntegration: locals
    kegg_to_mine, c_node_count, mc_node_count, kc_node_count,
    kmi_n,               \* the counter n
    kmi_nodes,           \* nodes of the running "for node in network.nodes()"
    raised,              \* the exception that ended the call, "" if none
    network0,            \* copy of the graph taken before the call (G.copy())
    kmi_calls,           \* number of KeggMineIntegration calls made on the graph
    \* ---- GetComp / GetRxn: arguments and locals
    fetch_fn,            \* "GetComp" or "GetRxn"
    fetch_id,            \* comp_id / rxn_id
    fetch_n,             \* the counter n
    fetch_results,       \* results
    fetch_pc,
    \* ---- ThreadedGetComps: arguments and locals
    batch_id_list,       \* the argument comp_id_list
    work, output,        \* the two queue.Queue objects (FIFO)
    unfinished_tasks,    \* work.unfinished_tasks, the count work.join() waits on
    threads,             \* number of worker threads started
    batch_todo,          \* ids that "for comp_id in comp_id_list" has yet to put
    stops,               \* number of None sentinels put
    w_pc, w_item,        \* per worker: position, and the id taken from work
    batch_comps,         \* the list comps that is returned
    main_pc,
    \* ---- SortKeggReactions: arguments and locals
    kegg_comp_dict, kegg_rxn_dict,
    sort_todo,           \* keys that "for kegg_comp_id in ..." has yet to visit
    sort_comp_id,        \* kegg_comp_id of the running inner loop, None outside
    sort_i,              \* position of the inner loop in kegg_comp["Reactions"]
    allow_call,          \* arguments and return value of the last call of
                         \* AllowReactionListing (line 448), None before it
    sort_pc,
    \* ---- GetKeggComps / GetKeggRxns and the loops of GetRawKegg over them
    kegg_fn,             \* "GetKeggComps", "GetKeggRxns", or "" while neither runs
    w_n,                 \* per worker: n of GetKeggText, the failed requests
    w_text,              \* per worker: what GetKeggText has returned
    w_responses,         \* per worker: for each rget of the running GetKeggText
                         \* call, whether r.status_code was 200
    w_warning,           \* per worker: what the GetKeggText call wrote with sError
    kegg_dict_out,       \* kegg_comp_dict or kegg_rxn_dict filled by GetRawKegg
    raw_pc,
    \* ---- a call of LimitCarbon
    lc_comp,             \* the argument comp
    lc_limit,            \* the argument C_limit
    lc_result,           \* the value returned
    lc_pc

expVars == <<comp_id_list, step_limit, comp_limit, C_limit, comp_dict, rxn_dict,
             steps, comps, extended_comp_ids, unextended_comp_ids,
             rxn_exceeding_C_limit, comp_exceeding_C_limit, comp_cache,
             rxn_ids_to_download, comp_ids_to_download, seed_results,
             new_rxns, new_rxn_comp_ids, pc>>

bldVars == <<start_comp_ids, extra_kegg_ids, minetwork, via_construct,
             todo_comps, todo_rxns>>

\* The locals of GetRawNetwork, which the graph construction does not touch
expLocals == <<comp_id_list, step_limit, comp_limit, C_limit, steps, comps,
               extended_comp_ids, unextended_comp_ids, rxn_exceeding_C_limit,
               comp_exceeding_C_limit, comp_cache, rxn_ids_to_download,
               comp_ids_to_download, seed_results, new_rxns, new_rxn_comp_ids>>

kmiVars == <<kegg_to_mine, c_node_count, mc_node_count, kc_node_count, kmi_n,
             kmi_nodes, raised, network0, kmi_calls>>

fetchVars == <<fetch_fn, fetch_id, fetch_n, fetch_results, fetch_pc>>

batchVars == <<batch_id_list, work, output, unfinished_tasks, threads, batch_todo,
               stops, w_pc, w_item, batch_comps, main_pc>>

\* The variables of the database wrappers, which the pipeline steps leave alone
sortVars == <<kegg_comp_dict, kegg_rxn_dict, sort_todo, sort_comp_id, sort_i,
              allow_call, sort_pc>>

keggVars == <<kegg_fn, w_n, w_text, w_responses, w_warning, kegg_dict_out, raw_pc>>

carbonVars == <<lc_comp, lc_limit, lc_result, lc_pc>>

auxVars == <<fetchVars, batchVars, sortVars, keggVars, carbonVars>>

vars == <<expVars, bldVars, kmiVars, auxVars>>

-----------------------------------------------------------------------------
(* Bounds of the model *)

MaxFormulaLen == 3
MaxSeeds == 2
MaxSteps == 3
MaxCompLimit == 6
MaxCLimit == 3
MaxKmiCalls == 2
MaxAttempts == 38
MaxWorkers == 2
MaxBatch == 2

(* Program constants *)

DefaultCLimit == 25

\* n >= 5 in GetKeggText
RequestLimit == 5

-----------------------------------------------------------------------------
(* Generic helpers *)

Range(s) == {s[i] : i \in DOMAIN s}

EmptyDict == <<>>

Keys(d) == DOMAIN d

Put(d, k, v) == [x \in (DOMAIN d) \cup {k} |-> IF x = k THEN v ELSE d[x]]

Min(S) == CHOOSE x \in S : \A y \in S : x <= y

Digits == <<"0", "1", "2", "3", "4", "5", "6", "7", "8", "9">>

IsDigit(ch) == \E i \in DOMAIN Digits : Digits[i] = ch

DigitVal(ch) == (CHOOSE i \in DOMAIN Digits : Digits[i] = ch) - 1

\* int(s) for a non-empty string of decimal digits
RECURSIVE ParseInt(_)
ParseInt(s) ==
    IF Len(s) = 0 THEN 0
    ELSE 10 * ParseInt(SubSeq(s, 1, Len(s) - 1)) + DigitVal(s[Len(s)])

\* The characters of the identifiers, in code point order
CodePoints == <<",", "0", "1", "2", "3", "4", "5", "6", "7", "8", "9",
                "C", "R", "S", "X", "a", "b", "c", "d", "e", "f">>

Ord(ch) == CHOOSE i \in DOMAIN CodePoints : CodePoints[i] = ch

\* a < b for Python strings
RECURSIVE StrLess(_, _)
StrLess(a, b) ==
    IF Len(b) = 0 THEN FALSE
    ELSE IF Len(a) = 0 THEN TRUE
    ELSE IF a[1] # b[1] THEN Ord(a[1]) < Ord(b[1])
    ELSE StrLess(Tail(a), Tail(b))

\* sorted(S) for a set of strings
RECURSIVE Sorted(_)
Sorted(S) ==
    IF S = {} THEN <<>>
    ELSE LET least == CHOOSE x \in S : \A y \in S \ {x} : StrLess(x, y)
         IN  <<least>> \o Sorted(S \ {least})

\* list(S) for a set of node numbers, in insertion (ascending) order
RECURSIVE SortedNodes(_)
SortedNodes(S) ==
    IF S = {} THEN <<>>
    ELSE <<Min(S)>> \o SortedNodes(S \ {Min(S)})

\* nx.DiGraph()
EmptyGraph == [node |-> <<>>, edge |-> {}, graph |-> <<>>]

\* Python's None where a string, a record or a list may stand
None == <<>>

-----------------------------------------------------------------------------
(* The state of the database wrappers while none of them is running *)

\* GetComp / GetRxn is not running
FetchIdle ==
    /\ fetch_fn = ""
    /\ fetch_id = None
    /\ fetch_n = 0
    /\ fetch_results = [kind |-> "unbound", val |-> None]
    /\ fetch_pc = "idle"

\* ThreadedGetComps is not running
BatchIdle ==
    /\ batch_id_list = <<>>
    /\ work = <<>>
    /\ output = <<>>
    /\ unfinished_tasks = 0
    /\ threads = 0
    /\ batch_todo = <<>>
    /\ stops = 0
    /\ w_pc = <<>>
    /\ w_item = <<>>
    /\ batch_comps = <<>>
    /\ main_pc = "idle"

\* SortKeggReactions is not running
SortIdle ==
    /\ kegg_comp_dict = EmptyDict
    /\ kegg_rxn_dict = EmptyDict
    /\ sort_todo = {}
    /\ sort_comp_id = None
    /\ sort_i = 0
    /\ allow_call = None
    /\ sort_pc = "idle"

\* Neither GetKeggComps nor GetKeggRxns is running
KeggIdle ==
    /\ kegg_fn = ""
    /\ w_n = <<>>
    /\ w_text = <<>>
    /\ w_responses = <<>>
    /\ w_warning = <<>>
    /\ kegg_dict_out = EmptyDict
    /\ raw_pc = "idle"

\* LimitCarbon is not being called on its own
CarbonIdle ==
    /\ lc_comp = EmptyDict
    /\ lc_limit = 0
    /\ lc_result = FALSE
    /\ lc_pc = "idle"

-----------------------------------------------------------------------------
(* The MINE database queried by ThreadedGetComps / ThreadedGetRxns.        *)
(* GetComp and GetRxn return None only for an id the database does not     *)
(* hold: an id outside DOMAIN MineDB.                                      *)

cA == <<"C", "a">>
cB == <<"C", "b">>
cD == <<"C", "d">>
cE == <<"C", "e">>
cF == <<"C", "f">>
cG == <<"C", "9">>
cZ == <<"C", "0">>

rR1 == <<"R", "1">>
rR2 == <<"R", "2">>
rR3 == <<"R", "3">>
rR4 == <<"R", "4">>
rR5 == <<"R", "5">>
rR9 == <<"R", "9">>

MineDB ==
    (cA :> [_id |-> cA, Formula |-> <<"C", "2", "H", "6">>,
            Reactant_in |-> <<rR1, rR2>>]) @@
    (cB :> [_id |-> cB, Formula |-> <<"C", "H", "4">>,
            Product_of |-> <<rR1>>, Reactant_in |-> <<rR3>>]) @@
    (cD :> [_id |-> cD,
            Reactant_in |-> <<rR2, rR3>>]) @@
    (cE :> [_id |-> cE, Formula |-> <<"H", "2", "O">>,
            Product_of |-> <<rR3>>, Reactant_in |-> <<rR9>>]) @@
    (cF :> [_id |-> cF, Formula |-> <<"C", "3", "H", "8">>,
            Product_of |-> <<rR3>>, Reactant_in |-> <<rR5>>]) @@
    (cG :> [_id |-> cG, Formula |-> <<"C", "1", "2", "H", "2", "2">>,
            Product_of |-> <<rR2>>, Reactant_in |-> <<rR4, rR5>>]) @@
    (rR1 :> [_id |-> rR1, Reactants |-> << <<1, cA>> >>,
             Products |-> << <<1, cB>>, <<1, cZ>> >>]) @@
    (rR2 :> [_id |-> rR2, Reactants |-> << <<1, cA>>, <<1, cD>> >>,
             Products |-> << <<1, cG>> >>]) @@
    (rR3 :> [_id |-> rR3, Reactants |-> << <<1, cB>>, <<1, cD>> >>,
             Products |-> << <<2, cE>>, <<1, cF>> >>]) @@
    (rR4 :> [_id |-> rR4, Reactants |-> << <<1, cG>> >>,
             Products |-> << <<1, cA>> >>]) @@
    (rR5 :> [_id |-> rR5, Reactants |-> << <<1, cG>>, <<1, cF>> >>,
             Products |-> << <<1, cA>> >>])

SeedPool == {cA, cB, cG, cZ}

\* One result per requested id that the database holds (a None result is
\* dropped by the caller's "if comp == None: continue").
Fetched(ids) == ids \cap DOMAIN MineDB

-----------------------------------------------------------------------------
(* LimitCarbon *)

\* re.search('C{1}[0-9]*', formula).group(0).split('C')[1]: the digits that
\* follow the first 'C'
RECURSIVE DigitRun(_, _)
DigitRun(formula, i) ==
    IF i <= Len(formula) /\ IsDigit(formula[i])
    THEN <<formula[i]>> \o DigitRun(formula, i + 1)
    ELSE <<>>

C_count(formula) ==
    LET cs == {i \in DOMAIN formula : formula[i] = "C"}
    IN  IF cs = {} THEN 0
        ELSE LET run == DigitRun(formula, Min(cs) + 1)
             IN  IF run = <<>> THEN 1 ELSE ParseInt(run)

\* LimitCarbon that also reports a compound with exactly limit carbons
LimitCarbon_AtLeast(comp, limit) ==
    IF "Formula" \notin DOMAIN comp THEN FALSE
    ELSE C_count(comp.Formula) >= limit

LimitCarbon(comp, limit) ==
    IF "Formula" \notin DOMAIN comp THEN FALSE
    ELSE C_count(comp.Formula) > limit

-----------------------------------------------------------------------------
(* ExtractCompReactionIds, ExtractReactionCompIds *)

ExtractCompReactionIds(comp) ==
    (IF "Reactant_in" \in DOMAIN comp THEN comp.Reactant_in ELSE <<>>) \o
    (IF "Product_of" \in DOMAIN comp THEN comp.Product_of ELSE <<>>)

ExtractReactionCompIds(rxn) ==
    (IF "Reactants" \in DOMAIN rxn
     THEN [i \in DOMAIN rxn.Reactants |-> rxn.Reactants[i][2]] ELSE <<>>) \o
    (IF "Products" \in DOMAIN rxn
     THEN [i \in DOMAIN rxn.Products |-> rxn.Products[i][2]] ELSE <<>>)

-----------------------------------------------------------------------------
(* GetRawNetwork *)

SeedLists == UNION {[1..n -> SeedPool] : n \in 0..MaxSeeds}

ExpInit ==
    /\ comp_id_list \in SeedLists
    /\ step_limit \in 0..MaxSteps
    /\ comp_limit \in 1..MaxCompLimit
    /\ C_limit \in (0..MaxCLimit) \cup {DefaultCLimit}
    /\ comp_dict = EmptyDict
    /\ rxn_dict = EmptyDict
    /\ steps = 0
    /\ comps = 0
    /\ extended_comp_ids = {}
    /\ unextended_comp_ids = {}
    /\ rxn_exceeding_C_limit = {}
    /\ comp_exceeding_C_limit = {}
    /\ comp_cache = EmptyDict
    /\ rxn_ids_to_download = {}
    /\ comp_ids_to_download = {}
    \* ThreadedGetComps(con, db, comp_id_list): one result per list entry
    /\ seed_results = {i \in DOMAIN comp_id_list : comp_id_list[i] \in DOMAIN MineDB}
    /\ new_rxns = {}
    /\ new_rxn_comp_ids = {}
    /\ pc = "seeds"
    /\ start_comp_ids = {}
    /\ extra_kegg_ids = <<>>
    /\ minetwork = EmptyGraph
    /\ via_construct = TRUE
    /\ todo_comps = <<>>
    /\ todo_rxns = <<>>
    /\ kegg_to_mine = EmptyDict
    /\ c_node_count = 0
    /\ mc_node_count = 0
    /\ kc_node_count = 0
    /\ kmi_n = 0
    /\ kmi_nodes = <<>>
    /\ raised = ""
    /\ network0 = EmptyGraph
    /\ kmi_calls = 0
    /\ FetchIdle
    /\ BatchIdle
    /\ SortIdle
    /\ KeggIdle
    /\ CarbonIdle

\* AddSeed without the LimitCarbon test
AddSeed_NoCarbonTest ==
    /\ UNCHANGED <<bldVars, kmiVars, auxVars>>
    /\ pc = "seeds"
    /\ \E i \in seed_results :
        LET comp == MineDB[comp_id_list[i]]
            comp_id == comp._id
        IN  /\ seed_results' = seed_results \ {i}
            /\ comp_dict' = Put(comp_dict, comp_id, comp)
            /\ comps' = comps + 1
    /\ UNCHANGED <<comp_id_list, step_limit, comp_limit, C_limit, rxn_dict, steps,
                   extended_comp_ids, unextended_comp_ids, rxn_exceeding_C_limit,
                   comp_exceeding_C_limit, comp_cache, rxn_ids_to_download,
                   comp_ids_to_download, new_rxns, new_rxn_comp_ids, pc>>

\* One iteration of "for comp in ThreadedGetComps(con, db, comp_id_list)";
\* the batch delivers its results in any order.
AddSeed ==
    /\ UNCHANGED <<bldVars, kmiVars, auxVars>>
    /\ pc = "seeds"
    /\ \E i \in seed_results :
        LET comp == MineDB[comp_id_list[i]]
            comp_id == comp._id
        IN  /\ seed_results' = seed_results \ {i}
            /\ IF ~LimitCarbon(comp, C_limit)
               THEN /\ comp_dict' = Put(comp_dict, comp_id, comp)
                    /\ comps' = comps + 1
               ELSE UNCHANGED <<comp_dict, comps>>
    /\ UNCHANGED <<comp_id_list, step_limit, comp_limit, C_limit, rxn_dict, steps,
                   extended_comp_ids, unextended_comp_ids, rxn_exceeding_C_limit,
                   comp_exceeding_C_limit, comp_cache, rxn_ids_to_download,
                   comp_ids_to_download, new_rxns, new_rxn_comp_ids, pc>>

SeedsDone ==
    /\ UNCHANGED <<bldVars, kmiVars, auxVars>>
    /\ pc = "seeds"
    /\ seed_results = {}
    /\ pc' = "while"
    /\ UNCHANGED <<comp_id_list, step_limit, comp_limit, C_limit, comp_dict, rxn_dict,
                   steps, comps, extended_comp_ids, unextended_comp_ids,
                   rxn_exceeding_C_limit, comp_exceeding_C_limit, comp_cache,
                   rxn_ids_to_download, comp_ids_to_download, seed_results,
                   new_rxns, new_rxn_comp_ids>>

\* RxnIdsToDownload without the test against rxn_exceeding_C_limit
RxnIdsToDownload_NoExclusionTest(unextended) ==
    {rxn_id \in UNION {Range(ExtractCompReactionIds(comp_dict[comp_id])) :
                          comp_id \in unextended} :
        rxn_id \notin Keys(rxn_dict)}

\* The reactions to download for the unexplored compounds
RxnIdsToDownload(unextended) ==
    {rxn_id \in UNION {Range(ExtractCompReactionIds(comp_dict[comp_id])) :
                          comp_id \in unextended} :
        rxn_id \notin Keys(rxn_dict) /\ rxn_id \notin rxn_exceeding_C_limit}

\* The compounds to download for the downloaded reactions
CompIdsToDownload(rxn_ids) ==
    {rxn_comp_id \in UNION {Range(ExtractReactionCompIds(MineDB[rxn_id])) :
                               rxn_id \in rxn_ids} :
        /\ rxn_comp_id \notin Keys(comp_dict)
        /\ rxn_comp_id \notin Keys(comp_cache)
        /\ rxn_comp_id \notin comp_exceeding_C_limit}

\* BeginStep without "steps += 1"
BeginStep_NoCount ==
    /\ UNCHANGED <<bldVars, kmiVars, auxVars>>
    /\ pc = "while"
    /\ steps < step_limit
    /\ steps' = steps
    /\ unextended_comp_ids' = Keys(comp_dict) \ extended_comp_ids
    /\ rxn_ids_to_download' = RxnIdsToDownload(unextended_comp_ids')
    /\ new_rxns' = Fetched(rxn_ids_to_download')
    /\ comp_ids_to_download' = CompIdsToDownload(new_rxns')
    /\ comp_cache' = [x \in Keys(comp_cache) \cup Fetched(comp_ids_to_download') |->
                         IF x \in Fetched(comp_ids_to_download')
                         THEN MineDB[x] ELSE comp_cache[x]]
    /\ pc' = "rxns"
    /\ UNCHANGED <<comp_id_list, step_limit, comp_limit, C_limit, comp_dict, rxn_dict,
                   comps, extended_comp_ids, rxn_exceeding_C_limit,
                   comp_exceeding_C_limit, seed_results, new_rxn_comp_ids>>

\* BeginStep under "while steps <= step_limit"
BeginStep_OneMore ==
    /\ UNCHANGED <<bldVars, kmiVars, auxVars>>
    /\ pc = "while"
    /\ steps <= step_limit
    /\ steps' = steps + 1
    /\ unextended_comp_ids' = Keys(comp_dict) \ extended_comp_ids
    /\ rxn_ids_to_download' = RxnIdsToDownload(unextended_comp_ids')
    /\ new_rxns' = Fetched(rxn_ids_to_download')
    /\ comp_ids_to_download' = CompIdsToDownload(new_rxns')
    /\ comp_cache' = [x \in Keys(comp_cache) \cup Fetched(comp_ids_to_download') |->
                         IF x \in Fetched(comp_ids_to_download')
                         THEN MineDB[x] ELSE comp_cache[x]]
    /\ pc' = "rxns"
    /\ UNCHANGED <<comp_id_list, step_limit, comp_limit, C_limit, comp_dict, rxn_dict,
                   comps, extended_comp_ids, rxn_exceeding_C_limit,
                   comp_exceeding_C_limit, seed_results, new_rxn_comp_ids>>

\* "while steps < step_limit": a new step begins; both batches of the step are
\* downloaded and the compound cache is expanded
BeginStep ==
    /\ UNCHANGED <<bldVars, kmiVars, auxVars>>
    /\ pc = "while"
    /\ steps < step_limit
    /\ steps' = steps + 1
    /\ unextended_comp_ids' = Keys(comp_dict) \ extended_comp_ids
    /\ rxn_ids_to_download' = RxnIdsToDownload(unextended_comp_ids')
    /\ new_rxns' = Fetched(rxn_ids_to_download')
    /\ comp_ids_to_download' = CompIdsToDownload(new_rxns')
    /\ comp_cache' = [x \in Keys(comp_cache) \cup Fetched(comp_ids_to_download') |->
                         IF x \in Fetched(comp_ids_to_download')
                         THEN MineDB[x] ELSE comp_cache[x]]
    /\ pc' = "rxns"
    /\ UNCHANGED <<comp_id_list, step_limit, comp_limit, C_limit, comp_dict, rxn_dict,
                   comps, extended_comp_ids, rxn_exceeding_C_limit,
                   comp_exceeding_C_limit, seed_results, new_rxn_comp_ids>>

\* WalkRxnComps that skips a compound exceeding the C limit instead of marking
\* it and breaking
RECURSIVE WalkRxnComps_NoBreak(_, _, _)
WalkRxnComps_NoBreak(rxn_comp_ids, i, new) ==
    IF i > Len(rxn_comp_ids) THEN [exceeding |-> <<>>, new |-> new]
    ELSE LET rxn_comp_id == rxn_comp_ids[i]
         IN  IF rxn_comp_id \in Keys(comp_dict)
                \/ rxn_comp_id \notin Keys(comp_cache)
                \/ LimitCarbon(comp_cache[rxn_comp_id], C_limit)
             THEN WalkRxnComps_NoBreak(rxn_comp_ids, i + 1, new)
             ELSE WalkRxnComps_NoBreak(rxn_comp_ids, i + 1,
                                       new \cup {rxn_comp_id})

\* WalkRxnComps that treats a compound that was never downloaded like one that
\* exceeds the C limit
RECURSIVE WalkRxnComps_MissingBreaks(_, _, _)
WalkRxnComps_MissingBreaks(rxn_comp_ids, i, new) ==
    IF i > Len(rxn_comp_ids) THEN [exceeding |-> <<>>, new |-> new]
    ELSE LET rxn_comp_id == rxn_comp_ids[i]
         IN  IF rxn_comp_id \in Keys(comp_dict)
             THEN WalkRxnComps_MissingBreaks(rxn_comp_ids, i + 1, new)
             ELSE IF rxn_comp_id \notin Keys(comp_cache)
                     \/ LimitCarbon(comp_cache[rxn_comp_id], C_limit)
                  THEN [exceeding |-> rxn_comp_id, new |-> new]
                  ELSE WalkRxnComps_MissingBreaks(rxn_comp_ids, i + 1,
                                                  new \cup {rxn_comp_id})

\* The inner "for rxn_comp_id in rxn_comp_ids" of the harvesting loop, from
\* position i on: the compound that broke the loop (or <<>>) and the new compound
\* ids that passed the C limit before it.
RECURSIVE WalkRxnComps(_, _, _)
WalkRxnComps(rxn_comp_ids, i, new) ==
    IF i > Len(rxn_comp_ids) THEN [exceeding |-> <<>>, new |-> new]
    ELSE LET rxn_comp_id == rxn_comp_ids[i]
         IN  IF rxn_comp_id \in Keys(comp_dict)
             THEN WalkRxnComps(rxn_comp_ids, i + 1, new)
             ELSE IF rxn_comp_id \notin Keys(comp_cache)
                  THEN WalkRxnComps(rxn_comp_ids, i + 1, new)
                  ELSE IF LimitCarbon(comp_cache[rxn_comp_id], C_limit)
                       THEN [exceeding |-> rxn_comp_id, new |-> new]
                       ELSE WalkRxnComps(rxn_comp_ids, i + 1,
                                         new \cup {rxn_comp_id})

\* ProcessRxn that harvests the new compounds of a discarded reaction
ProcessRxn_HarvestsDiscarded ==
    /\ UNCHANGED <<bldVars, kmiVars, auxVars>>
    /\ pc = "rxns"
    /\ \E r \in new_rxns :
        LET rxn == MineDB[r]
            rxn_id == rxn._id
            walk == WalkRxnComps(ExtractReactionCompIds(rxn), 1, {})
        IN  /\ new_rxns' = new_rxns \ {r}
            /\ IF walk.exceeding # <<>>
               THEN /\ comp_exceeding_C_limit' =
                            comp_exceeding_C_limit \cup {walk.exceeding}
                    /\ rxn_exceeding_C_limit' = rxn_exceeding_C_limit \cup {rxn_id}
                    /\ new_rxn_comp_ids' = walk.new
                    /\ pc' = IF walk.new = {} THEN "rxns" ELSE "harvest"
                    /\ UNCHANGED rxn_dict
               ELSE /\ rxn_dict' = Put(rxn_dict, rxn_id, rxn)
                    /\ new_rxn_comp_ids' = walk.new
                    /\ pc' = IF walk.new = {} THEN "rxns" ELSE "harvest"
                    /\ UNCHANGED <<comp_exceeding_C_limit, rxn_exceeding_C_limit>>
    /\ UNCHANGED <<comp_id_list, step_limit, comp_limit, C_limit, comp_dict, steps,
                   comps, extended_comp_ids, unextended_comp_ids, comp_cache,
                   rxn_ids_to_download, comp_ids_to_download, seed_results>>

\* One iteration of the second "for rxn in new_rxns", up to and including
\* "rxn_dict[rxn_id] = rxn"
ProcessRxn ==
    /\ UNCHANGED <<bldVars, kmiVars, auxVars>>
    /\ pc = "rxns"
    /\ \E r \in new_rxns :
        LET rxn == MineDB[r]
            rxn_id == rxn._id
            walk == WalkRxnComps(ExtractReactionCompIds(rxn), 1, {})
        IN  /\ new_rxns' = new_rxns \ {r}
            /\ IF walk.exceeding # <<>>
               THEN /\ comp_exceeding_C_limit' =
                            comp_exceeding_C_limit \cup {walk.exceeding}
                    /\ rxn_exceeding_C_limit' = rxn_exceeding_C_limit \cup {rxn_id}
                    /\ UNCHANGED <<rxn_dict, new_rxn_comp_ids, pc>>
               ELSE /\ rxn_dict' = Put(rxn_dict, rxn_id, rxn)
                    /\ new_rxn_comp_ids' = walk.new
                    /\ pc' = IF walk.new = {} THEN "rxns" ELSE "harvest"
                    /\ UNCHANGED <<comp_exceeding_C_limit, rxn_exceeding_C_limit>>
    /\ UNCHANGED <<comp_id_list, step_limit, comp_limit, C_limit, comp_dict, steps,
                   comps, extended_comp_ids, unextended_comp_ids, comp_cache,
                   rxn_ids_to_download, comp_ids_to_download, seed_results>>

\* Harvest that moves one new compound of the reaction and drops the others
Harvest_OnlyOne ==
    /\ UNCHANGED <<bldVars, kmiVars, auxVars>>
    /\ pc = "harvest"
    /\ \E new_rxn_comp_id \in new_rxn_comp_ids :
        /\ comp_dict' = Put(comp_dict, new_rxn_comp_id, comp_cache[new_rxn_comp_id])
        /\ comps' = comps + 1
        /\ new_rxn_comp_ids' = {}
        /\ pc' = IF comps' >= comp_limit THEN "done" ELSE "rxns"
    /\ UNCHANGED <<comp_id_list, step_limit, comp_limit, C_limit, rxn_dict, steps,
                   extended_comp_ids, unextended_comp_ids, rxn_exceeding_C_limit,
                   comp_exceeding_C_limit, comp_cache, rxn_ids_to_download,
                   comp_ids_to_download, seed_results, new_rxns>>

\* One iteration of "for new_rxn_comp_id in new_rxn_comp_ids" (a set: any order)
Harvest ==
    /\ UNCHANGED <<bldVars, kmiVars, auxVars>>
    /\ pc = "harvest"
    /\ \E new_rxn_comp_id \in new_rxn_comp_ids :
        /\ comp_dict' = Put(comp_dict, new_rxn_comp_id, comp_cache[new_rxn_comp_id])
        /\ comps' = comps + 1
        /\ new_rxn_comp_ids' = new_rxn_comp_ids \ {new_rxn_comp_id}
        /\ pc' = IF comps' >= comp_limit THEN "done"
                 ELSE IF new_rxn_comp_ids' = {} THEN "rxns" ELSE "harvest"
    /\ UNCHANGED <<comp_id_list, step_limit, comp_limit, C_limit, rxn_dict, steps,
                   extended_comp_ids, unextended_comp_ids, rxn_exceeding_C_limit,
                   comp_exceeding_C_limit, comp_cache, rxn_ids_to_download,
                   comp_ids_to_download, seed_results, new_rxns>>

\* All reactions in the current step have been explored
EndStep ==
    /\ UNCHANGED <<bldVars, kmiVars, auxVars>>
    /\ pc = "rxns"
    /\ new_rxns = {}
    /\ extended_comp_ids' = extended_comp_ids \cup unextended_comp_ids
    /\ pc' = "while"
    /\ UNCHANGED <<comp_id_list, step_limit, comp_limit, C_limit, comp_dict, rxn_dict,
                   steps, comps, unextended_comp_ids, rxn_exceeding_C_limit,
                   comp_exceeding_C_limit, comp_cache, rxn_ids_to_download,
                   comp_ids_to_download, seed_results, new_rxns, new_rxn_comp_ids>>

\* Return that also leaves the loop after a step that admitted no reaction
Return_WhenNoNewReactions ==
    /\ UNCHANGED <<bldVars, kmiVars, auxVars>>
    /\ pc = "while"
    /\ \/ ~(steps < step_limit)
       \/ steps > 0 /\ rxn_ids_to_download \cap Keys(rxn_dict) = {}
    /\ pc' = "done"
    /\ UNCHANGED <<comp_id_list, step_limit, comp_limit, C_limit, comp_dict, rxn_dict,
                   steps, comps, extended_comp_ids, unextended_comp_ids,
                   rxn_exceeding_C_limit, comp_exceeding_C_limit, comp_cache,
                   rxn_ids_to_download, comp_ids_to_download, seed_results,
                   new_rxns, new_rxn_comp_ids>>

\* The while condition fails: return (comp_dict, rxn_dict)
Return ==
    /\ UNCHANGED <<bldVars, kmiVars, auxVars>>
    /\ pc = "while"
    /\ ~(steps < step_limit)
    /\ pc' = "done"
    /\ UNCHANGED <<comp_id_list, step_limit, comp_limit, C_limit, comp_dict, rxn_dict,
                   steps, comps, extended_comp_ids, unextended_comp_ids,
                   rxn_exceeding_C_limit, comp_exceeding_C_limit, comp_cache,
                   rxn_ids_to_download, comp_ids_to_download, seed_results,
                   new_rxns, new_rxn_comp_ids>>

Init == ExpInit

Next ==
    \/ AddSeed
    \/ SeedsDone
    \/ BeginStep
    \/ ProcessRxn
    \/ Harvest
    \/ EndStep
    \/ Return

Spec == Init /\ [][Next]_vars

\* GetRawNetwork is sequential code: while a statement is left to run, one runs
SpecFair == Spec /\ WF_vars(Next)

-----------------------------------------------------------------------------
(* Compound and reaction dictionaries handed to ConstructNetwork *)

C00001 == <<"C", "0", "0", "0", "0", "1">>
C00002 == <<"C", "0", "0", "0", "0", "2">>
C00003 == <<"C", "0", "0", "0", "0", "3">>
C00004 == <<"C", "0", "0", "0", "0", "4">>
R00001 == <<"R", "0", "0", "0", "0", "1">>
R00002 == <<"R", "0", "0", "0", "0", "2">>

HashLen == 40

\* A MINE id: a prefix letter and a 40 character hash
MineId(prefix, ch) == <<prefix>> \o [i \in 1..HashLen |-> ch]

X490c == MineId("X", "4")
C683d == MineId("C", "6")
C069c == MineId("C", "0")
C1230 == MineId("C", "1")
Rf227 == MineId("R", "f")
Re928 == MineId("R", "e")

C1 == <<"C", "1">>
C2 == <<"C", "2">>
C3 == <<"C", "3">>
C4 == <<"C", "4">>
C5 == <<"C", "5">>
C6 == <<"C", "6">>
C7 == <<"C", "7">>
C8 == <<"C", "8">>
C9 == <<"C", "9">>
X1 == <<"X", "1">>
X2 == <<"X", "2">>
R1 == <<"R", "1">>
R2 == <<"R", "2">>
R3 == <<"R", "3">>
R4 == <<"R", "4">>
R5 == <<"R", "5">>
R1e == <<"R", "1", "e">>
R2f == <<"R", "2", "f">>
R7f == <<"R", "7", "f">>
R99 == <<"R", "9", "9">>
Rb7 == <<"R", "b", "7">>
Rc3 == <<"R", "c", "3">>
Rcd == <<"R", "c", "d">>
X9 == <<"X", "9">>

\* The network of test_ConstructNetwork
Net8Comps ==
    (C1 :> [_id |-> C1, Reactant_in |-> <<R99>>]) @@
    (C2 :> [_id |-> C2, Reactant_in |-> <<R1e>>, Product_of |-> <<R99>>]) @@
    (C3 :> [_id |-> C3, Reactant_in |-> <<Rcd>>, Product_of |-> <<R99, Rc3>>]) @@
    (C4 :> [_id |-> C4, Product_of |-> <<R1e>>]) @@
    (C5 :> [_id |-> C5, Reactant_in |-> <<Rc3, R2f>>, Product_of |-> <<Rcd, R1e>>]) @@
    (C6 :> [_id |-> C6, Product_of |-> <<Rcd>>]) @@
    (C7 :> [_id |-> C7, Product_of |-> <<R2f, R7f>>]) @@
    (C8 :> [_id |-> C8, Reactant_in |-> <<Rb7>>, Product_of |-> <<R2f>>])

Net8Rxns ==
    (R1e :> [_id |-> R1e, Products |-> << <<1, C4>>, <<1, C5>> >>,
             Reactants |-> << <<1, C2>> >>]) @@
    (R2f :> [_id |-> R2f, Products |-> << <<1, C7>>, <<1, C8>> >>,
             Reactants |-> << <<1, C5>> >>]) @@
    (R99 :> [_id |-> R99, Products |-> << <<1, C2>>, <<1, C3>> >>,
             Reactants |-> << <<1, C1>> >>]) @@
    (Rc3 :> [_id |-> Rc3, Products |-> << <<1, C3>> >>,
             Reactants |-> << <<1, C5>> >>]) @@
    (Rcd :> [_id |-> Rcd, Products |-> << <<1, C5>>, <<1, C6>> >>,
             Reactants |-> << <<1, C3>> >>])

\* The records of test_AddQuadReactionNode (r1, r2, c1..c3, x1, x2), with a
\* reaction missing a participant (R3), a reaction without products list (R4),
\* a reaction whose reactant is also its product (R5), a cofactor listing a
\* reaction it takes no part in (X1) and a compound record without id (C9)
QuadComps ==
    (C1 :> [_id |-> C1, Reactant_in |-> <<R1, R5>>]) @@
    (C2 :> [_id |-> C2, Product_of |-> <<R1>>, Reactant_in |-> <<R2>>]) @@
    (C3 :> [_id |-> C3, Product_of |-> <<R2>>, Reactant_in |-> <<R3>>,
            Formula |-> <<"C", "3", "H", "8">>]) @@
    (X1 :> [_id |-> X1, Formula |-> <<"H", "2", "O">>, Reactant_in |-> <<R2>>]) @@
    (X2 :> [_id |-> X2, Formula |-> <<"C", "1", "0", "H", "1", "6">>]) @@
    (C9 :> [Formula |-> <<"C", "H", "4">>])

QuadRxns ==
    (R1 :> [_id |-> R1, Reactants |-> << <<1, C1>>, <<1, X1>> >>,
            Products |-> << <<1, C2>>, <<1, X2>> >>]) @@
    (R2 :> [_id |-> R2, Reactants |-> << <<1, C2>> >>,
            Products |-> << <<1, C3>> >>]) @@
    (R3 :> [_id |-> R3, Reactants |-> << <<1, C3>> >>,
            Products |-> << <<1, C1>>, <<1, C9>> >>]) @@
    (R4 :> [_id |-> R4, Reactants |-> << <<1, C1>> >>]) @@
    (R5 :> [_id |-> R5, Reactants |-> << <<1, C1>>, <<2, C3>> >>,
            Products |-> << <<1, C1>> >>])

\* The KEGG and MINE sub-networks of test_KeggMineIntegration
KeggMineComps ==
    (C00001 :> [_id |-> C00001, DB_links |-> [KEGG |-> <<C00001>>],
                Reactant_in |-> <<R00001>>]) @@
    (X490c :> [_id |-> X490c, DB_links |-> [KEGG |-> <<C00001>>]]) @@
    (C00002 :> [_id |-> C00002, DB_links |-> [KEGG |-> <<C00002>>],
                Product_of |-> <<R00002>>]) @@
    (C683d :> [_id |-> C683d, DB_links |-> [KEGG |-> <<C00002>>],
               Reactant_in |-> <<Re928>>]) @@
    (C00003 :> [_id |-> C00003, DB_links |-> [KEGG |-> <<C00003>>],
                Reactant_in |-> <<R00002>>, Product_of |-> <<R00001>>]) @@
    (C069c :> [_id |-> C069c, DB_links |-> [KEGG |-> <<C00003>>],
               Product_of |-> <<Rf227>>]) @@
    (C00004 :> [_id |-> C00004, DB_links |-> [KEGG |-> <<C00004>>]]) @@
    (C1230 :> [_id |-> C1230, DB_links |-> [KEGG |-> <<C00004>>],
               Product_of |-> <<Re928>>])

KeggMineRxns ==
    (R00001 :> [_id |-> R00001, Reactants |-> << <<1, C00001>> >>,
                Products |-> << <<1, C00003>> >>]) @@
    (R00002 :> [_id |-> R00002, Reactants |-> << <<1, C00003>> >>,
                Products |-> << <<1, C00002>> >>]) @@
    (Rf227 :> [_id |-> Rf227, Reactants |-> << <<1, X490c>> >>,
               Products |-> << <<1, C069c>> >>]) @@
    (Re928 :> [_id |-> Re928, Reactants |-> << <<1, C683d>> >>,
               Products |-> << <<1, C1230>> >>])

\* No compound, and one reaction with empty reactant and product lists
EmptyRxns == R1 :> [_id |-> R1, Reactants |-> <<>>, Products |-> <<>>]

\* Records that AddCompoundNode and AddQuadReactionNode refuse: a compound
\* record without id (under the key C9, with the KEGG link of C1), a reaction
\* record without id (R2), a reaction with a participant that has no node (R3),
\* a reaction without product list (R4) and a reaction with a reactant entry
\* that is no (coefficient, id) pair (R5); R1 is well-formed
BadComps ==
    (C1 :> [_id |-> C1, DB_links |-> [KEGG |-> <<C00001>>],
            Reactant_in |-> <<R1, R3, R4>>]) @@
    (C2 :> [_id |-> C2, Product_of |-> <<R1, R5>>]) @@
    (C9 :> [DB_links |-> [KEGG |-> <<C00001>>], Formula |-> <<"C", "H", "4">>]) @@
    (X9 :> [_id |-> X9, Formula |-> <<"C", "H", "4">>, Product_of |-> <<R1>>])

BadRxns ==
    (R1 :> [_id |-> R1, Reactants |-> << <<1, C1>> >>,
            Products |-> << <<1, C2>>, <<1, X9>> >>]) @@
    (R2 :> [Reactants |-> << <<1, C1>> >>, Products |-> << <<1, C2>> >>]) @@
    (R3 :> [_id |-> R3, Reactants |-> << <<1, C1>> >>,
            Products |-> << <<1, C9>> >>]) @@
    (R4 :> [_id |-> R4, Reactants |-> << <<1, C1>> >>]) @@
    (R5 :> [_id |-> R5, Reactants |-> << <<1>> >>, Products |-> << <<1, C2>> >>])

Networks ==
    { [comps |-> Net8Comps, rxns |-> Net8Rxns],
      [comps |-> BadComps, rxns |-> BadRxns],
      [comps |-> QuadComps, rxns |-> QuadRxns],
      [comps |-> KeggMineComps, rxns |-> KeggMineRxns],
      [comps |-> EmptyDict, rxns |-> EmptyRxns],
      [comps |-> EmptyDict, rxns |-> EmptyDict] }

StartPool == {C1, C2, C00001}

ExtraKeggLists == {<<>>, <<C00004>>}

-----------------------------------------------------------------------------
(* networkx.DiGraph operations *)

\* dict.update: the entries of b over those of a
Update(a, b) ==
    [k \in (DOMAIN a) \cup (DOMAIN b) |-> IF k \in DOMAIN b THEN b[k] ELSE a[k]]

\* G.add_node(n, **attrs)
add_node(G, n, attrs) ==
    [G EXCEPT !.node = Put(G.node, n,
                           IF n \in DOMAIN G.node
                           THEN Update(G.node[n], attrs) ELSE attrs)]

\* G.add_edges_from(ebunch) / G.add_edge(u, v): an end that is no node yet is
\* added as a node without attributes
add_edges_from(G, ebunch) ==
    LET ends == {e[1] : e \in ebunch} \cup {e[2] : e \in ebunch}
    IN  [G EXCEPT !.node = [n \in (DOMAIN G.node) \cup ends |->
                               IF n \in DOMAIN G.node THEN G.node[n] ELSE <<>>],
                  !.edge = G.edge \cup ebunch]

successors(G, n) == {e[2] : e \in {x \in G.edge : x[1] = n}}

predecessors(G, n) == {e[1] : e \in {x \in G.edge : x[2] = n}}

-----------------------------------------------------------------------------
(* AddCompoundNode *)

\* AddCompoundNode that starts a new index at every call
AddCompoundNode_ResetIndex(graph, compound, start_ids) ==
    LET N == Cardinality(DOMAIN graph.node) + 1
    IN  IF "_id" \notin DOMAIN compound THEN graph
        ELSE LET mid == compound._id
                 start == (mid \in start_ids) \/ ((<<"C">> \o Tail(mid)) \in start_ids)
                          \/ (mid[1] = "X" /\ ~LimitCarbon(compound, 0))
                 G1 == add_node(graph, N, [type |-> "c", mid |-> mid, start |-> start])
             IN  [G1 EXCEPT !.graph = Update(G1.graph, [cmid2node |-> (mid :> N)])]

\* AddCompoundNode that numbers the new node len(graph.nodes())
AddCompoundNode_ReusesId(graph, compound, start_ids) ==
    LET N == Cardinality(DOMAIN graph.node)
    IN  IF "_id" \notin DOMAIN compound THEN graph
        ELSE LET mid == compound._id
                 start == IF mid \in start_ids THEN TRUE
                          ELSE IF (<<"C">> \o Tail(mid)) \in start_ids THEN TRUE
                          ELSE IF mid[1] = "X" /\ ~LimitCarbon(compound, 0) THEN TRUE
                          ELSE FALSE
                 G1 == add_node(graph, N, [type |-> "c", mid |-> mid, start |-> start])
             IN  [G1 EXCEPT !.graph =
                     IF "cmid2node" \in DOMAIN G1.graph
                     THEN [G1.graph EXCEPT !.cmid2node = Put(G1.graph.cmid2node, mid, N)]
                     ELSE Update(G1.graph, [cmid2node |-> (mid :> N)])]

\* AddCompoundNode without the test of the id with its first character
\* replaced by 'C'
AddCompoundNode_NoAnalogue(graph, compound, start_ids) ==
    LET N == Cardinality(DOMAIN graph.node) + 1
    IN  IF "_id" \notin DOMAIN compound THEN graph
        ELSE LET mid == compound._id
                 start == IF mid \in start_ids THEN TRUE
                          ELSE IF mid[1] = "X" /\ ~LimitCarbon(compound, 0) THEN TRUE
                          ELSE FALSE
                 G1 == add_node(graph, N, [type |-> "c", mid |-> mid, start |-> start])
             IN  [G1 EXCEPT !.graph =
                     IF "cmid2node" \in DOMAIN G1.graph
                     THEN [G1.graph EXCEPT !.cmid2node = Put(G1.graph.cmid2node, mid, N)]
                     ELSE Update(G1.graph, [cmid2node |-> (mid :> N)])]

AddCompoundNode(graph, compound, start_ids) ==
    LET N == Cardinality(DOMAIN graph.node) + 1
    IN  IF "_id" \notin DOMAIN compound THEN graph
        ELSE LET mid == compound._id
                 start == IF mid \in start_ids THEN TRUE
                          ELSE IF (<<"C">> \o Tail(mid)) \in start_ids THEN TRUE
                          ELSE IF mid[1] = "X" /\ ~LimitCarbon(compound, 0) THEN TRUE
                          ELSE FALSE
                 G1 == add_node(graph, N, [type |-> "c", mid |-> mid, start |-> start])
             IN  [G1 EXCEPT !.graph =
                     IF "cmid2node" \in DOMAIN G1.graph
                     THEN [G1.graph EXCEPT !.cmid2node = Put(G1.graph.cmid2node, mid, N)]
                     ELSE Update(G1.graph, [cmid2node |-> (mid :> N)])]

-----------------------------------------------------------------------------
(* CheckConnection *)

\* minetwork.graph['mine_data'][c_mid][key] raises no KeyError
HasList(G, c_mid, key) ==
    /\ "mine_data" \in DOMAIN G.graph
    /\ c_mid \in DOMAIN G.graph.mine_data
    /\ key \in DOMAIN G.graph.mine_data[c_mid]

\* CheckConnection testing Product_of for rf/pr and Reactant_in for pf/rr
CheckConnection_ListsSwapped(G, c_node, r_node) ==
    LET c_mid == G.node[c_node].mid
        r_mid == G.node[r_node].mid
        r_type == G.node[r_node].type
    IN  \/ /\ r_type \in {"rf", "pr"}
           /\ HasList(G, c_mid, "Product_of")
           /\ r_mid \in Range(G.graph.mine_data[c_mid].Product_of)
        \/ /\ r_type \in {"pf", "rr"}
           /\ HasList(G, c_mid, "Reactant_in")
           /\ r_mid \in Range(G.graph.mine_data[c_mid].Reactant_in)

CheckConnection(G, c_node, r_node) ==
    LET c_mid == G.node[c_node].mid
        r_mid == G.node[r_node].mid
        r_type == G.node[r_node].type
        con_check1 ==
            IF r_type \in {"rf", "pr"}
            THEN IF HasList(G, c_mid, "Reactant_in")
                 THEN r_mid \in Range(G.graph.mine_data[c_mid].Reactant_in)
                 ELSE FALSE
            ELSE FALSE
        con_check2 ==
            IF r_type \in {"pf", "rr"}
            THEN IF HasList(G, c_mid, "Product_of")
                 THEN IF r_mid \in Range(G.graph.mine_data[c_mid].Product_of)
                      THEN TRUE ELSE con_check1
                 ELSE con_check1
            ELSE con_check1
    IN  con_check2

-----------------------------------------------------------------------------
(* AddQuadReactionNode *)

\* [x[1] for x in rxn[key]] raises: the key is missing or an entry is too short
BadList(rxn, key) ==
    \/ key \notin DOMAIN rxn
    \/ \E i \in DOMAIN rxn[key] : Len(rxn[key][i]) < 2

\* AddRoleNode connecting every member without CheckConnection
AddRoleNode_NoCheck(G, N, role, rxn_id, members, outward) ==
    LET G1 == add_node(G, N, [type |-> role, mid |-> rxn_id, c |-> members])
    IN  add_edges_from(G1, {IF outward THEN <<c_node, N>> ELSE <<N, c_node>> :
                                c_node \in members})

\* add_node(N, type=role, mid=rxn_id, c=members), then one edge per member that
\* CheckConnection accepts: compound -> role node when outward, else role node ->
\* compound
AddRoleNode(G, N, role, rxn_id, members, outward) ==
    LET G1 == add_node(G, N, [type |-> role, mid |-> rxn_id, c |-> members])
        ok == {c_node \in members : CheckConnection(G1, c_node, N)}
    IN  add_edges_from(G1, {IF outward THEN <<c_node, N>> ELSE <<N, c_node>> :
                                c_node \in ok})

\* CreateReactionNodes giving the reverse nodes the member sets of the forward
\* nodes
CreateReactionNodes_ReverseAsForward(graph, rxn_id, rf, pf, rr, pr) ==
    LET N == Cardinality(DOMAIN graph.node) + 1
        G1 == add_node(graph, N, [type |-> "rf", mid |-> rxn_id, c |-> rf])
        G2 == add_node(G1, N + 1, [type |-> "pf", mid |-> rxn_id, c |-> pf])
        G3 == add_node(G2, N + 2, [type |-> "rr", mid |-> rxn_id, c |-> rf])
        G4 == add_node(G3, N + 3, [type |-> "pr", mid |-> rxn_id, c |-> pf])
    IN  add_edges_from(G4, {<<N, N + 1>>, <<N + 2, N + 3>>})

\* The node creation of AddQuadReactionNode, lines 1639-1670
CreateReactionNodes(graph, rxn_id, rf, pf, rr, pr) ==
    LET N == Cardinality(DOMAIN graph.node) + 1
        G1 == AddRoleNode(graph, N, "rf", rxn_id, rf, TRUE)
        G2 == AddRoleNode(G1, N + 1, "pf", rxn_id, pf, FALSE)
        G3 == add_edges_from(G2, {<<N, N + 1>>})
        G4 == AddRoleNode(G3, N + 2, "rr", rxn_id, rr, TRUE)
        G5 == AddRoleNode(G4, N + 3, "pr", rxn_id, pr, FALSE)
    IN  add_edges_from(G5, {<<N + 2, N + 3>>})

\* AddQuadReactionNode that creates the reactant-side nodes before it resolves
\* the products
AddQuadReactionNode_Partial(graph, rxn) ==
    IF "_id" \notin DOMAIN rxn \/ BadList(rxn, "Reactants") \/ BadList(rxn, "Products")
    THEN graph
    ELSE LET reactants_f == {x[2] : x \in Range(rxn.Reactants)}
             products_f == {x[2] : x \in Range(rxn.Products)}
             cmid2node == IF "cmid2node" \in DOMAIN graph.graph
                          THEN graph.graph.cmid2node ELSE EmptyDict
             N == Cardinality(DOMAIN graph.node) + 1
         IN  IF \E c_mid \in reactants_f : c_mid \notin DOMAIN cmid2node THEN graph
             ELSE LET rf == {cmid2node[c_mid] : c_mid \in reactants_f}
                  IN  IF \E c_mid \in products_f : c_mid \notin DOMAIN cmid2node
                      THEN AddRoleNode(graph, N, "rf", rxn._id, rf, TRUE)
                      ELSE LET pf == {cmid2node[c_mid] : c_mid \in products_f}
                           IN  CreateReactionNodes(graph, rxn._id, rf, pf, pf, rf)

\* AddQuadReactionNode that leaves a missing participant out of the member sets
\* and adds the reaction nodes all the same
AddQuadReactionNode_KeepsResolved(graph, rxn) ==
    IF "_id" \notin DOMAIN rxn \/ BadList(rxn, "Reactants") \/ BadList(rxn, "Products")
    THEN graph
    ELSE LET cmid2node == IF "cmid2node" \in DOMAIN graph.graph
                          THEN graph.graph.cmid2node ELSE EmptyDict
             rf == {cmid2node[c_mid] :
                       c_mid \in {x[2] : x \in Range(rxn.Reactants)} \cap DOMAIN cmid2node}
             pf == {cmid2node[c_mid] :
                       c_mid \in {x[2] : x \in Range(rxn.Products)} \cap DOMAIN cmid2node}
         IN  CreateReactionNodes(graph, rxn._id, rf, pf, pf, rf)

\* AddQuadReactionNode that takes the record of a reaction it has added out of
\* mine_data
AddQuadReactionNode_PopsRecord(graph, rxn) ==
    IF "_id" \notin DOMAIN rxn \/ BadList(rxn, "Reactants") \/ BadList(rxn, "Products")
    THEN graph
    ELSE LET reactants_f == {x[2] : x \in Range(rxn.Reactants)}
             products_f == {x[2] : x \in Range(rxn.Products)}
             cmid2node == IF "cmid2node" \in DOMAIN graph.graph
                          THEN graph.graph.cmid2node ELSE EmptyDict
         IN  IF \E c_mid \in reactants_f \cup products_f : c_mid \notin DOMAIN cmid2node
             THEN graph
             ELSE LET rf == {cmid2node[c_mid] : c_mid \in reactants_f}
                      pf == {cmid2node[c_mid] : c_mid \in products_f}
                      G == CreateReactionNodes(graph, rxn._id, rf, pf, pf, rf)
                  IN  IF "mine_data" \in DOMAIN G.graph
                      THEN [G EXCEPT !.graph.mine_data =
                               [k \in (DOMAIN @) \ {rxn._id} |-> @[k]]]
                      ELSE G

AddQuadReactionNode(graph, rxn) ==
    LET rxn_malformed ==
            "_id" \notin DOMAIN rxn \/ BadList(rxn, "Reactants") \/ BadList(rxn, "Products")
    IN  IF rxn_malformed THEN graph
        ELSE LET rxn_id == rxn._id
                 reactants_f == {x[2] : x \in Range(rxn.Reactants)}
                 products_f == {x[2] : x \in Range(rxn.Products)}
                 cmid2node == IF "cmid2node" \in DOMAIN graph.graph
                              THEN graph.graph.cmid2node ELSE EmptyDict
             IN  IF \E c_mid \in reactants_f : c_mid \notin DOMAIN cmid2node THEN graph
                 ELSE IF \E c_mid \in products_f : c_mid \notin DOMAIN cmid2node THEN graph
                 ELSE LET rf == {cmid2node[c_mid] : c_mid \in reactants_f}
                          pf == {cmid2node[c_mid] : c_mid \in products_f}
                      IN  CreateReactionNodes(graph, rxn_id, rf, pf, pf, rf)

-----------------------------------------------------------------------------
(* ExpandStartCompIds *)

\* set(comp['DB_links']['KEGG']), or the empty set on KeyError
KeggLinks(comp) ==
    IF "DB_links" \in DOMAIN comp
    THEN IF "KEGG" \in DOMAIN comp.DB_links THEN Range(comp.DB_links.KEGG) ELSE {}
    ELSE {}

\* ExpandStartCompIds that bypasses a start id missing from the compound map
\* for good: the id is left out of the result
ExpandStartCompIds_DropsAbsentSeeds(comps_, start_ids, extra_ids) ==
    LET start_kegg_ids ==
            Range(extra_ids) \cup
            UNION {KeggLinks(comps_[start_comp_id]) :
                      start_comp_id \in start_ids \cap DOMAIN comps_}
    IN  (start_ids \cap DOMAIN comps_) \cup
        {comp_id \in DOMAIN comps_ : KeggLinks(comps_[comp_id]) \cap start_kegg_ids # {}}

ExpandStartCompIds(comps_, start_ids, extra_ids) ==
    LET start_kegg_ids ==
            Range(extra_ids) \cup
            UNION {KeggLinks(comps_[start_comp_id]) :
                      start_comp_id \in start_ids \cap DOMAIN comps_}
    IN  start_ids \cup
        {comp_id \in DOMAIN comps_ : KeggLinks(comps_[comp_id]) \cap start_kegg_ids # {}}

-----------------------------------------------------------------------------
(* ConstructNetwork *)

BuildInit ==
    /\ \E net \in Networks : comp_dict = net.comps /\ rxn_dict = net.rxns
    /\ start_comp_ids \in SUBSET StartPool
    /\ extra_kegg_ids \in ExtraKeggLists
    /\ via_construct \in BOOLEAN
    /\ minetwork = EmptyGraph
    /\ todo_comps = <<>>
    /\ todo_rxns = <<>>
    /\ pc = "construct"
    /\ kegg_to_mine = EmptyDict
    /\ c_node_count = 0
    /\ mc_node_count = 0
    /\ kc_node_count = 0
    /\ kmi_n = 0
    /\ kmi_nodes = <<>>
    /\ raised = ""
    /\ network0 = EmptyGraph
    /\ kmi_calls = 0
    /\ FetchIdle
    /\ BatchIdle
    /\ SortIdle
    /\ KeggIdle
    /\ CarbonIdle
    /\ comp_id_list = <<>>
    /\ step_limit = 0
    /\ comp_limit = 1
    /\ C_limit = DefaultCLimit
    /\ steps = 0
    /\ comps = 0
    /\ extended_comp_ids = {}
    /\ unextended_comp_ids = {}
    /\ rxn_exceeding_C_limit = {}
    /\ comp_exceeding_C_limit = {}
    /\ comp_cache = EmptyDict
    /\ rxn_ids_to_download = {}
    /\ comp_ids_to_download = {}
    /\ seed_results = {}
    /\ new_rxns = {}
    /\ new_rxn_comp_ids = {}

\* Lines 1826-1835: the start ids are expanded and the graph is initialised,
\* with mine_data={**comp_dict, **rxn_dict} in ConstructNetwork
ConstructStart ==
    /\ UNCHANGED <<kmiVars, auxVars>>
    /\ pc = "construct"
    /\ start_comp_ids' = IF via_construct
                         THEN ExpandStartCompIds(comp_dict, start_comp_ids, extra_kegg_ids)
                         ELSE start_comp_ids
    /\ minetwork' = IF via_construct
                    THEN [EmptyGraph EXCEPT
                             !.graph = [mine_data |-> Update(comp_dict, rxn_dict)]]
                    ELSE EmptyGraph
    /\ todo_comps' = Sorted(Keys(comp_dict))
    /\ pc' = "compounds"
    /\ UNCHANGED <<comp_dict, rxn_dict, expLocals, extra_kegg_ids, via_construct,
                   todo_rxns>>

\* One iteration of "for comp_id in sorted(comp_dict.keys())"
AddCompoundStep ==
    /\ UNCHANGED <<kmiVars, auxVars>>
    /\ pc = "compounds"
    /\ todo_comps # <<>>
    /\ minetwork' = AddCompoundNode(minetwork, comp_dict[Head(todo_comps)],
                                    start_comp_ids)
    /\ todo_comps' = Tail(todo_comps)
    /\ UNCHANGED <<comp_dict, rxn_dict, expLocals, start_comp_ids, extra_kegg_ids,
                   via_construct, todo_rxns, pc>>

\* BeginReactions that loops over the reaction ids in descending order
BeginReactions_ReverseOrder ==
    /\ UNCHANGED <<kmiVars, auxVars>>
    /\ pc = "compounds"
    /\ todo_comps = <<>>
    /\ todo_rxns' = LET ids == Sorted(Keys(rxn_dict))
                    IN  [i \in 1..Len(ids) |-> ids[Len(ids) + 1 - i]]
    /\ pc' = "reactions"
    /\ UNCHANGED <<comp_dict, rxn_dict, expLocals, start_comp_ids, extra_kegg_ids,
                   via_construct, minetwork, todo_comps>>

\* Lines 1842-1846: all compounds are added, the reaction loop begins
BeginReactions ==
    /\ UNCHANGED <<kmiVars, auxVars>>
    /\ pc = "compounds"
    /\ todo_comps = <<>>
    /\ todo_rxns' = Sorted(Keys(rxn_dict))
    /\ pc' = "reactions"
    /\ UNCHANGED <<comp_dict, rxn_dict, expLocals, start_comp_ids, extra_kegg_ids,
                   via_construct, minetwork, todo_comps>>

\* One iteration of "for rxn_id in sorted(rxn_dict.keys())"
AddReactionStep ==
    /\ UNCHANGED <<kmiVars, auxVars>>
    /\ pc = "reactions"
    /\ todo_rxns # <<>>
    /\ minetwork' = AddQuadReactionNode(minetwork, rxn_dict[Head(todo_rxns)])
    /\ todo_rxns' = Tail(todo_rxns)
    /\ UNCHANGED <<comp_dict, rxn_dict, expLocals, start_comp_ids, extra_kegg_ids,
                   via_construct, todo_comps, pc>>

\* return minetwork
ConstructReturn ==
    /\ UNCHANGED <<kmiVars, auxVars>>
    /\ pc = "reactions"
    /\ todo_rxns = <<>>
    /\ pc' = "built"
    /\ UNCHANGED <<comp_dict, rxn_dict, expLocals, start_comp_ids, extra_kegg_ids,
                   via_construct, minetwork, todo_comps, todo_rxns>>

-----------------------------------------------------------------------------
(* AddCompoundNode and AddQuadReactionNode called in any order on a graph   *)
(* that starts empty: the records of the two maps are handed over in the    *)
(* order of their ids, a compound or a reaction at each call.               *)

CallsInit ==
    /\ \E net \in Networks : comp_dict = net.comps /\ rxn_dict = net.rxns
    /\ start_comp_ids \in SUBSET StartPool
    /\ extra_kegg_ids = <<>>
    /\ via_construct \in BOOLEAN
    /\ minetwork = IF via_construct
                   THEN [EmptyGraph EXCEPT
                            !.graph = [mine_data |-> Update(comp_dict, rxn_dict)]]
                   ELSE EmptyGraph
    /\ todo_comps = Sorted(Keys(comp_dict))
    /\ todo_rxns = Sorted(Keys(rxn_dict))
    /\ pc = "calls"
    /\ kegg_to_mine = EmptyDict
    /\ c_node_count = 0
    /\ mc_node_count = 0
    /\ kc_node_count = 0
    /\ kmi_n = 0
    /\ kmi_nodes = <<>>
    /\ raised = ""
    /\ network0 = EmptyGraph
    /\ kmi_calls = 0
    /\ FetchIdle
    /\ BatchIdle
    /\ SortIdle
    /\ KeggIdle
    /\ CarbonIdle
    /\ comp_id_list = <<>>
    /\ step_limit = 0
    /\ comp_limit = 1
    /\ C_limit = DefaultCLimit
    /\ steps = 0
    /\ comps = 0
    /\ extended_comp_ids = {}
    /\ unextended_comp_ids = {}
    /\ rxn_exceeding_C_limit = {}
    /\ comp_exceeding_C_limit = {}
    /\ comp_cache = EmptyDict
    /\ rxn_ids_to_download = {}
    /\ comp_ids_to_download = {}
    /\ seed_results = {}
    /\ new_rxns = {}
    /\ new_rxn_comp_ids = {}

\* graph = AddCompoundNode(graph, compound, start_comp_ids)
CallAddCompoundNode ==
    /\ UNCHANGED <<kmiVars, auxVars>>
    /\ pc = "calls"
    /\ todo_comps # <<>>
    /\ minetwork' = AddCompoundNode(minetwork, comp_dict[Head(todo_comps)],
                                    start_comp_ids)
    /\ todo_comps' = Tail(todo_comps)
    /\ UNCHANGED <<comp_dict, rxn_dict, expLocals, start_comp_ids, extra_kegg_ids,
                   via_construct, todo_rxns, pc>>

\* graph = AddQuadReactionNode(graph, rxn)
CallAddQuadReactionNode ==
    /\ UNCHANGED <<kmiVars, auxVars>>
    /\ pc = "calls"
    /\ todo_rxns # <<>>
    /\ minetwork' = AddQuadReactionNode(minetwork, rxn_dict[Head(todo_rxns)])
    /\ todo_rxns' = Tail(todo_rxns)
    /\ UNCHANGED <<comp_dict, rxn_dict, expLocals, start_comp_ids, extra_kegg_ids,
                   via_construct, todo_comps, pc>>

CallsNext ==
    \/ CallAddCompoundNode
    \/ CallAddQuadReactionNode

SpecCalls == CallsInit /\ [][CallsNext]_vars

-----------------------------------------------------------------------------
(* IsConnectedMineComp, KeggMineIntegration *)

HexChars == {"0", "1", "2", "3", "4", "5", "6", "7", "8", "9",
             "a", "b", "c", "d", "e", "f"}

\* re.match('^[CX]{1}[0-9,a-f]{40}$', mine_id)
IsMineCompId(mine_id) ==
    /\ Len(mine_id) = 1 + HashLen
    /\ mine_id[1] \in {"C", "X"}
    /\ \A i \in 2..Len(mine_id) : mine_id[i] \in HexChars \cup {","}

KeggDigits == 5

\* re.match('^C{1}[0-9]{5}$', kegg_id)
IsKeggCompId(kegg_id) ==
    /\ Len(kegg_id) = 1 + KeggDigits
    /\ kegg_id[1] = "C"
    /\ \A i \in 2..Len(kegg_id) : IsDigit(kegg_id[i])

IsConnectedMineComp(comp_id, network) ==
    {"Reactant_in", "Product_of"} \cap DOMAIN network.graph.mine_data[comp_id] # {}

\* Lines 1983-1990: the call begins; "for node in network.nodes()" will visit
\* the nodes in the order they were added. The graph is changed in place, so a
\* caller may hand the graph of an ended call to a further call.
KmiStart ==
    /\ \/ pc = "built"
       \/ pc \in {"integrated", "raised"} /\ kmi_calls < MaxKmiCalls
    /\ kmi_calls' = kmi_calls + 1
    /\ raised' = ""
    /\ kc_node_count' = 0
    /\ network0' = minetwork
    /\ kegg_to_mine' = EmptyDict
    /\ c_node_count' = 0
    /\ mc_node_count' = 0
    /\ kmi_n' = 0
    /\ kmi_nodes' = SortedNodes(DOMAIN minetwork.node)
    /\ pc' = "kmi_index"
    /\ UNCHANGED <<comp_dict, rxn_dict, expLocals, bldVars, auxVars>>

\* kegg_to_mine after "for kegg_id in kegg_ids" for one MINE compound
IndexKeggIds(k2m, kegg_ids, mine_id) ==
    [k \in (DOMAIN k2m) \cup kegg_ids |->
        IF k \in kegg_ids
        THEN (IF k \in DOMAIN k2m THEN k2m[k] ELSE {}) \cup {mine_id}
        ELSE k2m[k]]

\* One iteration of the first "for node in network.nodes()", lines 1990-2005
KmiIndexNode ==
    /\ pc = "kmi_index"
    /\ kmi_nodes # <<>>
    /\ LET node == Head(kmi_nodes)
           mine_id == minetwork.node[node].mid
           is_c == minetwork.node[node].type = "c"
           mid_match == is_c /\ IsMineCompId(mine_id)
           has_links == /\ "mine_data" \in DOMAIN minetwork.graph
                        /\ mine_id \in DOMAIN minetwork.graph.mine_data
                        /\ "DB_links" \in DOMAIN minetwork.graph.mine_data[mine_id]
                        /\ "KEGG" \in DOMAIN minetwork.graph.mine_data[mine_id].DB_links
       IN  /\ c_node_count' = IF is_c THEN c_node_count + 1 ELSE c_node_count
           /\ mc_node_count' = IF mid_match THEN mc_node_count + 1 ELSE mc_node_count
           /\ kegg_to_mine' =
                  IF mid_match /\ has_links
                  THEN IndexKeggIds(kegg_to_mine,
                                    Range(minetwork.graph.mine_data[mine_id].DB_links.KEGG),
                                    mine_id)
                  ELSE kegg_to_mine
    /\ kmi_nodes' = Tail(kmi_nodes)
    /\ UNCHANGED <<comp_dict, rxn_dict, expLocals, pc, bldVars, auxVars, network0, kc_node_count,
                   kmi_n, raised, kmi_calls>>

\* Lines 2008-2011: the index is complete, the transplant pass begins
KmiIndexDone ==
    /\ pc = "kmi_index"
    /\ kmi_nodes = <<>>
    /\ kc_node_count' = c_node_count - mc_node_count
    /\ kmi_n' = 0
    /\ kmi_nodes' = SortedNodes(DOMAIN minetwork.node)
    /\ pc' = "kmi_transplant"
    /\ UNCHANGED <<comp_dict, rxn_dict, expLocals, bldVars, auxVars, network0, kegg_to_mine, c_node_count,
                   mc_node_count, raised, kmi_calls>>

\* KmiTransplantNode whose id-shape test reads the id of the current node and
\* matches no KEGG id: a compound node is passed over
KmiTransplantNode_TestsNodeId ==
    /\ pc = "kmi_transplant"
    /\ kmi_nodes # <<>>
    /\ IF minetwork.node[Head(kmi_nodes)].type = "c"
       THEN /\ kmi_nodes' = Tail(kmi_nodes)
            /\ UNCHANGED <<kmi_n, raised, pc>>
       ELSE /\ kmi_n' = kmi_n + 1
            /\ IF kc_node_count = 0
               THEN /\ raised' = "ZeroDivisionError"
                    /\ pc' = "raised"
                    /\ UNCHANGED kmi_nodes
               ELSE /\ kmi_nodes' = Tail(kmi_nodes)
                    /\ UNCHANGED <<raised, pc>>
    /\ UNCHANGED <<comp_dict, rxn_dict, expLocals, bldVars, auxVars, network0, kegg_to_mine, c_node_count,
                   mc_node_count, kc_node_count, kmi_calls>>

\* One iteration of the second "for node in network.nodes()", lines 2011-2042.
\* For a compound node, line 2014 reads the name `compound`, which is bound
\* neither in the function nor in the module: NameError, and lines 2015-2039
\* (the transplant and the removal) are never executed. For another node the
\* progress is computed by a division by kc_node_count.
KmiTransplantNode ==
    /\ pc = "kmi_transplant"
    /\ kmi_nodes # <<>>
    /\ IF minetwork.node[Head(kmi_nodes)].type = "c"
       THEN /\ raised' = "NameError"
            /\ pc' = "raised"
            /\ UNCHANGED <<kmi_n, kmi_nodes>>
       ELSE /\ kmi_n' = kmi_n + 1
            /\ IF kc_node_count = 0
               THEN /\ raised' = "ZeroDivisionError"
                    /\ pc' = "raised"
                    /\ UNCHANGED kmi_nodes
               ELSE /\ kmi_nodes' = Tail(kmi_nodes)
                    /\ UNCHANGED <<raised, pc>>
    /\ UNCHANGED <<comp_dict, rxn_dict, expLocals, bldVars, auxVars, network0, kegg_to_mine, c_node_count,
                   mc_node_count, kc_node_count, kmi_calls>>

\* Line 2043: the transplant pass is over, the call returns
KmiReturn ==
    /\ pc = "kmi_transplant"
    /\ kmi_nodes = <<>>
    /\ pc' = "integrated"
    /\ UNCHANGED <<comp_dict, rxn_dict, expLocals, bldVars, auxVars, network0, kegg_to_mine, c_node_count,
                   mc_node_count, kc_node_count, kmi_n, kmi_nodes, raised, kmi_calls>>

BuildNext ==
    \/ ConstructStart
    \/ AddCompoundStep
    \/ BeginReactions
    \/ AddReactionStep
    \/ ConstructReturn
    \/ KmiStart
    \/ KmiIndexNode
    \/ KmiIndexDone
    \/ KmiTransplantNode
    \/ KmiReturn

SpecBuild == BuildInit /\ [][BuildNext]_vars

-----------------------------------------------------------------------------
(* GetComp, GetRxn: the wrappers of con.get_comps and con.get_rxns. The two *)
(* functions have the same body; fetch_fn tells which one is running.       *)

AttemptLimit == 36

\* GetRawNetwork, ConstructNetwork and KeggMineIntegration are not running
PipelineIdle ==
    /\ comp_id_list = <<>>
    /\ step_limit = 0
    /\ comp_limit = 1
    /\ C_limit = DefaultCLimit
    /\ comp_dict = EmptyDict
    /\ rxn_dict = EmptyDict
    /\ steps = 0
    /\ comps = 0
    /\ extended_comp_ids = {}
    /\ unextended_comp_ids = {}
    /\ rxn_exceeding_C_limit = {}
    /\ comp_exceeding_C_limit = {}
    /\ comp_cache = EmptyDict
    /\ rxn_ids_to_download = {}
    /\ comp_ids_to_download = {}
    /\ seed_results = {}
    /\ new_rxns = {}
    /\ new_rxn_comp_ids = {}
    /\ pc = "idle"
    /\ start_comp_ids = {}
    /\ extra_kegg_ids = <<>>
    /\ minetwork = EmptyGraph
    /\ via_construct = TRUE
    /\ todo_comps = <<>>
    /\ todo_rxns = <<>>
    /\ kegg_to_mine = EmptyDict
    /\ c_node_count = 0
    /\ mc_node_count = 0
    /\ kc_node_count = 0
    /\ kmi_n = 0
    /\ kmi_nodes = <<>>
    /\ raised = ""
    /\ network0 = EmptyGraph
    /\ kmi_calls = 0

\* The ids handed to GetComp and to GetRxn: in the database and not
FetchIds == [GetComp |-> {cA, cG, cZ}, GetRxn |-> {rR1, rR3, rR9}]

\* What con.get_comps(db, [id]) / con.get_rxns(db, [id]) returns when it does
\* not raise: a list holding the record, and for an id the database lacks an
\* empty list or a list holding None
ServerAnswers(id) ==
    IF id \in DOMAIN MineDB THEN {<<MineDB[id]>>} ELSE {<<>>, <<None>>}

FetchInit ==
    /\ PipelineIdle
    /\ BatchIdle
    /\ SortIdle
    /\ KeggIdle
    /\ CarbonIdle
    /\ fetch_fn \in DOMAIN FetchIds
    /\ fetch_id \in FetchIds[fetch_fn]
    /\ fetch_n = 0
    /\ fetch_results = [kind |-> "unbound", val |-> None]
    /\ fetch_pc = "try"

\* try: results = con.get_comps(db, [comp_id]); break
FetchOk ==
    /\ fetch_pc = "try"
    /\ \E answer \in ServerAnswers(fetch_id) :
           fetch_results' = [kind |-> "list", val |-> answer]
    /\ fetch_pc' = "index"
    /\ UNCHANGED <<fetch_fn, fetch_id, fetch_n>>
    /\ UNCHANGED <<expVars, bldVars, kmiVars, batchVars, sortVars, keggVars, carbonVars>>

\* except mc.ServerError: results = None; the loop goes on
FetchServerError ==
    /\ fetch_pc = "try"
    /\ fetch_results' = [kind |-> "None", val |-> None]
    /\ UNCHANGED <<fetch_fn, fetch_id, fetch_n, fetch_pc>>
    /\ UNCHANGED <<expVars, bldVars, kmiVars, batchVars, sortVars, keggVars, carbonVars>>

\* except: n += 1; from n = 36 on results = None; sleep; the loop goes on
FetchException ==
    /\ fetch_pc = "try"
    /\ fetch_n < MaxAttempts
    /\ fetch_n' = fetch_n + 1
    /\ fetch_results' = IF fetch_n' >= AttemptLimit
                        THEN [kind |-> "None", val |-> None]
                        ELSE fetch_results
    /\ UNCHANGED <<fetch_fn, fetch_id, fetch_pc>>
    /\ UNCHANGED <<expVars, bldVars, kmiVars, batchVars, sortVars, keggVars, carbonVars>>

\* Lines 860-866: results = results[0], or None on IndexError; return results
FetchReturn ==
    /\ fetch_pc = "index"
    /\ fetch_results' = [kind |-> "item",
                         val |-> IF Len(fetch_results.val) = 0 THEN None
                                 ELSE fetch_results.val[1]]
    /\ fetch_pc' = "returned"
    /\ UNCHANGED <<fetch_fn, fetch_id, fetch_n>>
    /\ UNCHANGED <<expVars, bldVars, kmiVars, batchVars, sortVars, keggVars, carbonVars>>

FetchNext ==
    \/ FetchOk
    \/ FetchServerError
    \/ FetchException
    \/ FetchReturn

SpecFetch == FetchInit /\ [][FetchNext]_vars

-----------------------------------------------------------------------------
(* QuickSearch: the wrapper of con.quick_search. It runs on the variables   *)
(* of GetComp: fetch_id is the query, fetch_results is results, whose kind  *)
(* is "initial" for the list of line 755 and "answer" for the server's.     *)

\* The queries: ids the database holds and one it does not
QuickQueries == {cA, cG, cZ}

\* What con.quick_search(db, query) returns when it does not raise
QuickAnswers(query) ==
    IF query \in DOMAIN MineDB THEN {<<MineDB[query]>>} ELSE {<<>>}

QuickInit ==
    /\ PipelineIdle
    /\ BatchIdle
    /\ SortIdle
    /\ KeggIdle
    /\ CarbonIdle
    /\ fetch_fn = "QuickSearch"
    /\ fetch_id \in QuickQueries
    /\ fetch_n = 0
    /\ fetch_results = [kind |-> "initial", val |-> <<>>]
    /\ fetch_pc = "try"

\* try: results = con.quick_search(db, query); return results
QuickOk ==
    /\ fetch_fn = "QuickSearch"
    /\ fetch_pc = "try"
    /\ \E answer \in QuickAnswers(fetch_id) :
           fetch_results' = [kind |-> "answer", val |-> answer]
    /\ fetch_pc' = "returned"
    /\ UNCHANGED <<fetch_fn, fetch_id, fetch_n>>
    /\ UNCHANGED <<expVars, bldVars, kmiVars, batchVars, sortVars, keggVars, carbonVars>>

\* except mc.ServerError: return results
QuickServerError ==
    /\ fetch_fn = "QuickSearch"
    /\ fetch_pc = "try"
    /\ fetch_pc' = "returned"
    /\ UNCHANGED <<fetch_fn, fetch_id, fetch_n, fetch_results>>
    /\ UNCHANGED <<expVars, bldVars, kmiVars, batchVars, sortVars, keggVars, carbonVars>>

\* QuickException that goes on with the loop at the attempt limit
QuickException_NoReturn ==
    /\ fetch_fn = "QuickSearch"
    /\ fetch_pc = "try"
    /\ fetch_n < MaxAttempts
    /\ fetch_n' = fetch_n + 1
    /\ UNCHANGED <<fetch_fn, fetch_id, fetch_results, fetch_pc>>
    /\ UNCHANGED <<expVars, bldVars, kmiVars, batchVars, sortVars, keggVars, carbonVars>>

\* except: n += 1; at n = 36 return results; else sleep and go on with the loop
QuickException ==
    /\ fetch_fn = "QuickSearch"
    /\ fetch_pc = "try"
    /\ fetch_n < MaxAttempts
    /\ fetch_n' = fetch_n + 1
    /\ fetch_pc' = IF fetch_n' >= AttemptLimit THEN "returned" ELSE "try"
    /\ UNCHANGED <<fetch_fn, fetch_id, fetch_results>>
    /\ UNCHANGED <<expVars, bldVars, kmiVars, batchVars, sortVars, keggVars, carbonVars>>

QuickNext ==
    \/ QuickOk
    \/ QuickServerError
    \/ QuickException

SpecQuick == QuickInit /\ [][QuickNext]_vars

-----------------------------------------------------------------------------
(* ThreadedGetComps: MaxWorkers worker threads (num_workers in the source)  *)
(* take ids from the queue work and put GetComp's results on the queue      *)
(* output. ThreadedGetRxns, GetKeggComps and GetKeggRxns are the same code  *)
(* around another per-id function.                                          *)

BatchPool == {cA, cB, cZ}

BatchLists == UNION {[1..k -> BatchPool] : k \in 0..MaxBatch}

\* What GetComp(con, db, comp_id) returns when it returns
GetCompResult(comp_id) ==
    IF comp_id \in DOMAIN MineDB THEN MineDB[comp_id] ELSE None

BatchInit ==
    /\ PipelineIdle
    /\ FetchIdle
    /\ SortIdle
    /\ KeggIdle
    /\ CarbonIdle
    /\ batch_id_list \in BatchLists
    /\ work = <<>>
    /\ output = <<>>
    /\ unfinished_tasks = 0
    /\ threads = 0
    /\ batch_todo = batch_id_list
    /\ stops = 0
    /\ w_pc = [w \in 1..MaxWorkers |-> "idle"]
    /\ w_item = [w \in 1..MaxWorkers |-> None]
    /\ batch_comps = <<>>
    /\ main_pc = "start"

\* One iteration of the first "for i in range(num_workers)": t.start()
MainStartThread ==
    /\ main_pc = "start"
    /\ threads' = threads + 1
    /\ w_pc' = [w_pc EXCEPT ![threads + 1] = "get"]
    /\ main_pc' = IF threads' < MaxWorkers THEN "start"
                  ELSE IF batch_todo = <<>> THEN "join" ELSE "put"
    /\ UNCHANGED <<batch_id_list, work, output, unfinished_tasks, batch_todo, stops,
                   w_item, batch_comps>>
    /\ UNCHANGED <<expVars, bldVars, kmiVars, fetchVars, sortVars, keggVars, carbonVars>>

\* One iteration of "for comp_id in comp_id_list": work.put(comp_id)
MainPut ==
    /\ main_pc = "put"
    /\ work' = Append(work, Head(batch_todo))
    /\ unfinished_tasks' = unfinished_tasks + 1
    /\ batch_todo' = Tail(batch_todo)
    /\ main_pc' = IF batch_todo' = <<>> THEN "join" ELSE "put"
    /\ UNCHANGED <<batch_id_list, output, threads, stops, w_pc, w_item, batch_comps>>
    /\ UNCHANGED <<expVars, bldVars, kmiVars, fetchVars, sortVars, keggVars, carbonVars>>

\* MainJoin without work.join()
MainJoin_NoBarrier ==
    /\ main_pc = "join"
    /\ main_pc' = "stop"
    /\ UNCHANGED <<batch_id_list, work, output, unfinished_tasks, threads, batch_todo,
                   stops, w_pc, w_item, batch_comps>>
    /\ UNCHANGED <<expVars, bldVars, kmiVars, fetchVars, sortVars, keggVars, carbonVars>>

\* work.join(): blocks until every item put has been marked done
MainJoin ==
    /\ main_pc = "join"
    /\ unfinished_tasks = 0
    /\ main_pc' = "stop"
    /\ UNCHANGED <<batch_id_list, work, output, unfinished_tasks, threads, batch_todo,
                   stops, w_pc, w_item, batch_comps>>
    /\ UNCHANGED <<expVars, bldVars, kmiVars, fetchVars, sortVars, keggVars, carbonVars>>

\* One iteration of the second "for i in range(num_workers)": work.put(None)
MainStop ==
    /\ main_pc = "stop"
    /\ work' = Append(work, None)
    /\ unfinished_tasks' = unfinished_tasks + 1
    /\ stops' = stops + 1
    /\ main_pc' = IF stops' < MaxWorkers THEN "stop" ELSE "join_threads"
    /\ UNCHANGED <<batch_id_list, output, threads, batch_todo, w_pc, w_item,
                   batch_comps>>
    /\ UNCHANGED <<expVars, bldVars, kmiVars, fetchVars, sortVars, keggVars, carbonVars>>

\* "for t in threads: t.join()": blocks until every worker has ended
MainJoinThreads ==
    /\ main_pc = "join_threads"
    /\ \A w \in 1..MaxWorkers : w_pc[w] = "exit"
    /\ main_pc' = "drain"
    /\ UNCHANGED <<batch_id_list, work, output, unfinished_tasks, threads, batch_todo,
                   stops, w_pc, w_item, batch_comps>>
    /\ UNCHANGED <<expVars, bldVars, kmiVars, fetchVars, sortVars, keggVars, carbonVars>>

\* One iteration of "while not output.empty()": comps.append(output.get())
MainDrain ==
    /\ main_pc = "drain"
    /\ output # <<>>
    /\ batch_comps' = Append(batch_comps, Head(output))
    /\ output' = Tail(output)
    /\ UNCHANGED <<batch_id_list, work, unfinished_tasks, threads, batch_todo, stops,
                   w_pc, w_item, main_pc>>
    /\ UNCHANGED <<expVars, bldVars, kmiVars, fetchVars, sortVars, keggVars, carbonVars>>

\* output is empty: return comps
MainReturn ==
    /\ main_pc = "drain"
    /\ output = <<>>
    /\ main_pc' = "returned"
    /\ UNCHANGED <<batch_id_list, work, output, unfinished_tasks, threads, batch_todo,
                   stops, w_pc, w_item, batch_comps>>
    /\ UNCHANGED <<expVars, bldVars, kmiVars, fetchVars, sortVars, keggVars, carbonVars>>

\* WorkerGet that leaves the sentinel in the queue when it ends
WorkerGet_KeepsSentinel(w) ==
    /\ w_pc[w] = "get"
    /\ work # <<>>
    /\ IF Head(work) = None
       THEN /\ w_pc' = [w_pc EXCEPT ![w] = "exit"]
            /\ UNCHANGED <<w_item, work>>
       ELSE /\ w_pc' = [w_pc EXCEPT ![w] = "fetch"]
            /\ w_item' = [w_item EXCEPT ![w] = Head(work)]
            /\ work' = Tail(work)
    /\ UNCHANGED <<batch_id_list, output, unfinished_tasks, threads, batch_todo, stops,
                   batch_comps, main_pc>>
    /\ UNCHANGED <<expVars, bldVars, kmiVars, fetchVars, sortVars, keggVars, carbonVars>>

\* comp_id = work.get(), which blocks on an empty queue; None ends the worker
WorkerGet(w) ==
    /\ w_pc[w] = "get"
    /\ work # <<>>
    /\ work' = Tail(work)
    /\ IF Head(work) = None
       THEN /\ w_pc' = [w_pc EXCEPT ![w] = "exit"]
            /\ UNCHANGED w_item
       ELSE /\ w_pc' = [w_pc EXCEPT ![w] = "fetch"]
            /\ w_item' = [w_item EXCEPT ![w] = Head(work)]
    /\ UNCHANGED <<batch_id_list, output, unfinished_tasks, threads, batch_todo, stops,
                   batch_comps, main_pc>>
    /\ UNCHANGED <<expVars, bldVars, kmiVars, fetchVars, sortVars, keggVars, carbonVars>>

\* output.put(GetComp(con, db, comp_id)), once GetComp has returned
WorkerPut(w) ==
    /\ w_pc[w] = "fetch"
    /\ output' = Append(output, GetCompResult(w_item[w]))
    /\ w_pc' = [w_pc EXCEPT ![w] = "task_done"]
    /\ UNCHANGED <<batch_id_list, work, unfinished_tasks, threads, batch_todo, stops,
                   w_item, batch_comps, main_pc>>
    /\ UNCHANGED <<expVars, bldVars, kmiVars, fetchVars, sortVars, keggVars, carbonVars>>

\* work.task_done()
WorkerTaskDone(w) ==
    /\ w_pc[w] = "task_done"
    /\ unfinished_tasks' = unfinished_tasks - 1
    /\ w_pc' = [w_pc EXCEPT ![w] = "get"]
    /\ w_item' = [w_item EXCEPT ![w] = None]
    /\ UNCHANGED <<batch_id_list, work, output, threads, batch_todo, stops,
                   batch_comps, main_pc>>
    /\ UNCHANGED <<expVars, bldVars, kmiVars, fetchVars, sortVars, keggVars, carbonVars>>

BatchNext ==
    \/ MainStartThread
    \/ MainPut
    \/ MainJoin
    \/ MainStop
    \/ MainJoinThreads
    \/ MainDrain
    \/ MainReturn
    \/ \E w \in 1..MaxWorkers : WorkerGet(w)
    \/ \E w \in 1..MaxWorkers : WorkerPut(w)
    \/ \E w \in 1..MaxWorkers : WorkerTaskDone(w)

SpecBatch == BatchInit /\ [][BatchNext]_vars

-----------------------------------------------------------------------------
(* AllowReactionListing, SortKeggReactions *)

C00008 == <<"C", "0", "0", "0", "0", "8">>
C00010 == <<"C", "0", "0", "0", "1", "0">>
C00011 == <<"C", "0", "0", "0", "1", "1">>
C00229 == <<"C", "0", "0", "2", "2", "9">>
R00003 == <<"R", "0", "0", "0", "0", "3">>
C10 == <<"C", "1", "0">>
C100 == <<"C", "1", "0", "0">>
C101 == <<"C", "1", "0", "1">>
Z2 == <<"Z", "2">>
Z4 == <<"Z", "4">>
Z9 == <<"Z", "9">>
X4 == <<"X", "4">>
R6 == <<"R", "6">>
R7 == <<"R", "7">>
R8 == <<"R", "8">>
RX == <<"R", "X">>

\* The string "a_b" that names the reactant pair of the compounds a and b
PairName(a, b) == a \o <<"_">> \o b

\* The dictionaries of test_SortKeggReactions
TestKeggComps ==
    (C1 :> [_id |-> C1, Reactions |-> <<R1, R2>>,
            Formula |-> <<"C", "1", "0", "H", "1", "8", "O", "2">>]) @@
    (C2 :> [_id |-> C2, Reactions |-> <<R3, R4>>, Formula |-> <<"X", "e", "F", "4">>]) @@
    (C3 :> [_id |-> C3, Reactions |-> <<R5, R6>>,
            Formula |-> <<"C", "1", "0", "H", "1", "2", "O", "3">>]) @@
    (C4 :> [_id |-> C4, Reactions |-> <<R5, RX>>,
            Formula |-> <<"C", "2", "H", "5", "O">>]) @@
    (C5 :> [_id |-> C5, Reactions |-> <<R7>>, Formula |-> <<"C", "H", "3", "O">>]) @@
    (C6 :> [_id |-> C6, Formula |-> <<"C", "1", "2">>])

TestKeggRxns ==
    (R1 :> [_id |-> R1, Reactants |-> << <<1, C1>> >>, Products |-> << <<1, X1>> >>,
            RPair |-> [RP1 |-> <<PairName(C1, X1), "main">>]]) @@
    (R2 :> [_id |-> R2, Reactants |-> << <<1, C1>>, <<1, C100>> >>,
            Products |-> << <<1, C101>>, <<2, C10>> >>,
            RPair |-> [RP2 |-> <<PairName(C100, C101), "main">>,
                       RP3 |-> <<PairName(C1, C10), "cofac">>]]) @@
    (R3 :> [_id |-> R3, Reactants |-> << <<1, C2>> >>, Products |-> << <<1, X2>> >>,
            RPair |-> [RP4 |-> <<PairName(C2, X2), "main">>]]) @@
    (R4 :> [_id |-> R3, Reactants |-> << <<1, Z2>> >>, Products |-> << <<1, C2>> >>,
            RPair |-> [RP5 |-> <<PairName(Z2, C2), "main">>]]) @@
    (R5 :> [_id |-> R5, Reactants |-> << <<1, C3>>, <<1, Z9>> >>,
            Products |-> << <<1, C4>> >>,
            RPair |-> [RP6 |-> <<PairName(C3, C4), "main">>,
                       RP7 |-> <<PairName(Z9, C4), "trans">>]]) @@
    (R6 :> [_id |-> R6, Reactants |-> << <<1, C9>> >>,
            Products |-> << <<1, C8>>, <<1, C3>> >>,
            RPair |-> [RP8 |-> <<PairName(C9, C3), "main">>]]) @@
    (R7 :> [_id |-> R7, Reactants |-> << <<1, X4>> >>, Products |-> << <<1, Z4>> >>,
            RPair |-> [RP9 |-> <<PairName(X4, Z4), "main">>]])

\* Records with KEGG ids, after the cases of test_AllowReactionListing: ATP and
\* ADP in RP00003, CoA, ACP, CO2, water, a compound without formula (C00003),
\* and a reaction without RPair (R00003)
KeggIdComps ==
    (C00001 :> [_id |-> C00001, Reactions |-> <<R00001>>,
                Formula |-> <<"H", "2", "O">>]) @@
    (C00002 :> [_id |-> C00002, Reactions |-> <<R00001, R00002, R00003>>,
                Formula |-> <<"C", "1", "0", "H", "1", "6">>]) @@
    (C00003 :> [_id |-> C00003, Reactions |-> <<R00002>>]) @@
    (C00004 :> [_id |-> C00004, Reactions |-> <<R00002, R00003>>,
                Formula |-> <<"C", "2", "1", "H", "2", "9">>]) @@
    (C00008 :> [_id |-> C00008, Reactions |-> <<R00001>>,
                Formula |-> <<"C", "1", "0", "H", "1", "5">>]) @@
    (C00010 :> [_id |-> C00010, Reactions |-> <<R00002>>,
                Formula |-> <<"C", "2", "1", "H", "3", "6">>]) @@
    (C00011 :> [_id |-> C00011, Reactions |-> <<R00002>>,
                Formula |-> <<"C", "O", "2">>]) @@
    (C00229 :> [_id |-> C00229, Reactions |-> <<R00002>>,
                Formula |-> <<"C", "1", "1", "H", "2", "1">>])

KeggIdRxns ==
    (R00001 :> [_id |-> R00001, Reactants |-> << <<1, C00002>>, <<1, C00001>> >>,
                Products |-> << <<1, C00008>> >>,
                RPair |-> [RP00003 |-> <<PairName(C00002, C00008), "ligase">>]]) @@
    (R00002 :> [_id |-> R00002,
                Reactants |-> << <<1, C00002>>, <<1, C00010>>, <<1, C00003>>,
                                 <<1, C00229>> >>,
                Products |-> << <<1, C00004>>, <<1, C00011>> >>,
                RPair |-> [RP00001 |-> <<PairName(C00002, C00004), "main">>]]) @@
    (R00003 :> [_id |-> R00003, Reactants |-> << <<1, C00004>> >>,
                Products |-> << <<1, C00002>> >>])

\* Ids of the kind the tests use, one a prefix of another: in R8 the main pair
\* is C1_C5 and the cofactor pair is C10_C101
PrefixComps ==
    (C1 :> [_id |-> C1, Reactions |-> <<R8>>,
            Formula |-> <<"C", "1", "0", "H", "1", "8", "O", "2">>]) @@
    (C5 :> [_id |-> C5, Reactions |-> <<R8>>, Formula |-> <<"C", "H", "3", "O">>]) @@
    (C10 :> [_id |-> C10, Reactions |-> <<R8>>, Formula |-> <<"C", "5">>]) @@
    (C101 :> [_id |-> C101, Reactions |-> <<R8>>, Formula |-> <<"C", "3">>])

PrefixRxns ==
    (R8 :> [_id |-> R8, Reactants |-> << <<1, C1>>, <<1, C10>> >>,
            Products |-> << <<1, C5>>, <<1, C101>> >>,
            RPair |-> [RP1 |-> <<PairName(C1, C5), "main">>,
                       RP2 |-> <<PairName(C10, C101), "cofac">>]])

KeggDicts ==
    { [comps |-> TestKeggComps, rxns |-> TestKeggRxns],
      [comps |-> KeggIdComps, rxns |-> KeggIdRxns],
      [comps |-> PrefixComps, rxns |-> PrefixRxns] }

\* Python's "a in b" for two strings: a is a substring of b
InString(a, b) ==
    \E i \in 0..(Len(b) - Len(a)) : SubSeq(b, i + 1, i + Len(a)) = a

AllowReactionListing(kegg_comp, kegg_rxn) ==
    IF ~LimitCarbon(kegg_comp, 0) \/ kegg_comp._id = C00011 THEN FALSE
    ELSE IF kegg_comp._id \in {C00010, C00229} THEN FALSE
    ELSE IF "RPair" \in DOMAIN kegg_rxn
         THEN ~\E rp \in DOMAIN kegg_rxn.RPair :
                  \/ /\ InString(kegg_comp._id, kegg_rxn.RPair[rp][1])
                     /\ kegg_rxn.RPair[rp][2] = "cofac"
                  \/ /\ InString(kegg_comp._id, kegg_rxn.RPair[rp][1])
                     /\ rp = "RP00003"
         ELSE TRUE

\* kegg_comp_dict[kegg_comp_id][key].append(rxn_id), or a new list on KeyError
AppendListing(comps_, kegg_comp_id, key, rxn_id) ==
    LET kegg_comp == comps_[kegg_comp_id]
    IN  [comps_ EXCEPT ![kegg_comp_id] =
            IF key \in DOMAIN kegg_comp
            THEN [kegg_comp EXCEPT ![key] = Append(@, rxn_id)]
            ELSE Put(kegg_comp, key, <<rxn_id>>)]

SortInit ==
    /\ PipelineIdle
    /\ FetchIdle
    /\ BatchIdle
    /\ KeggIdle
    /\ CarbonIdle
    /\ \E d \in KeggDicts : kegg_comp_dict = d.comps /\ kegg_rxn_dict = d.rxns
    /\ sort_todo = Keys(kegg_comp_dict)
    /\ sort_comp_id = None
    /\ sort_i = 0
    /\ allow_call = None
    /\ sort_pc = "loop"

\* "for kegg_comp_id in kegg_comp_dict.keys()": the next compound; its inner
\* loop runs if it has the key "Reactions" and the list is not empty
SortNextComp ==
    /\ UNCHANGED <<expVars, bldVars, kmiVars, fetchVars, batchVars, keggVars, carbonVars>>
    /\ sort_pc = "loop"
    /\ sort_comp_id = None
    /\ \E kegg_comp_id \in sort_todo :
        LET kegg_comp == kegg_comp_dict[kegg_comp_id]
        IN  /\ sort_todo' = sort_todo \ {kegg_comp_id}
            /\ IF "Reactions" \in DOMAIN kegg_comp /\ kegg_comp.Reactions # <<>>
               THEN sort_comp_id' = kegg_comp_id /\ sort_i' = 1
               ELSE sort_comp_id' = None /\ sort_i' = 0
    /\ UNCHANGED <<kegg_comp_dict, kegg_rxn_dict, allow_call, sort_pc>>

\* SortReaction without the call of AllowReactionListing
SortReaction_NoAllowTest ==
    /\ UNCHANGED <<expVars, bldVars, kmiVars, fetchVars, batchVars, keggVars, carbonVars>>
    /\ sort_pc = "loop"
    /\ sort_comp_id # None
    /\ LET kegg_comp_id == sort_comp_id
           kegg_comp == kegg_comp_dict[kegg_comp_id]
           rxn_id == kegg_comp.Reactions[sort_i]
           last == sort_i = Len(kegg_comp.Reactions)
       IN  /\ sort_comp_id' = IF last THEN None ELSE sort_comp_id
           /\ sort_i' = IF last THEN 0 ELSE sort_i + 1
           /\ IF rxn_id \notin Keys(kegg_rxn_dict)
              THEN UNCHANGED kegg_comp_dict
              ELSE LET rxn == kegg_rxn_dict[rxn_id]
                       d1 == IF /\ "Reactants" \in DOMAIN rxn
                                /\ \E i \in DOMAIN rxn.Reactants :
                                       rxn.Reactants[i][2] = kegg_comp_id
                             THEN AppendListing(kegg_comp_dict, kegg_comp_id,
                                                "Reactant_in", rxn._id)
                             ELSE kegg_comp_dict
                   IN  kegg_comp_dict' =
                           IF /\ "Products" \in DOMAIN rxn
                              /\ \E i \in DOMAIN rxn.Products :
                                     rxn.Products[i][2] = kegg_comp_id
                           THEN AppendListing(d1, kegg_comp_id, "Product_of", rxn._id)
                           ELSE d1
    /\ UNCHANGED <<kegg_rxn_dict, sort_todo, sort_pc, allow_call>>

\* One iteration of "for rxn_id in kegg_comp['Reactions']", lines 439-461
SortReaction ==
    /\ UNCHANGED <<expVars, bldVars, kmiVars, fetchVars, batchVars, keggVars, carbonVars>>
    /\ sort_pc = "loop"
    /\ sort_comp_id # None
    /\ LET kegg_comp_id == sort_comp_id
           kegg_comp == kegg_comp_dict[kegg_comp_id]
           rxn_id == kegg_comp.Reactions[sort_i]
           last == sort_i = Len(kegg_comp.Reactions)
       IN  /\ sort_comp_id' = IF last THEN None ELSE sort_comp_id
           /\ sort_i' = IF last THEN 0 ELSE sort_i + 1
           /\ IF rxn_id \notin Keys(kegg_rxn_dict)
              THEN UNCHANGED <<kegg_comp_dict, allow_call>>
              ELSE LET rxn == kegg_rxn_dict[rxn_id]
                       allowed == AllowReactionListing(kegg_comp, rxn)
                       d1 == IF /\ "Reactants" \in DOMAIN rxn
                                /\ \E i \in DOMAIN rxn.Reactants :
                                       rxn.Reactants[i][2] = kegg_comp_id
                             THEN AppendListing(kegg_comp_dict, kegg_comp_id,
                                                "Reactant_in", rxn._id)
                             ELSE kegg_comp_dict
                       d2 == IF /\ "Products" \in DOMAIN rxn
                                /\ \E i \in DOMAIN rxn.Products :
                                       rxn.Products[i][2] = kegg_comp_id
                             THEN AppendListing(d1, kegg_comp_id, "Product_of", rxn._id)
                             ELSE d1
                   IN  /\ allow_call' = [comp |-> kegg_comp_id, rxn |-> rxn_id,
                                         result |-> allowed]
                       /\ kegg_comp_dict' = IF allowed THEN d2 ELSE kegg_comp_dict
    /\ UNCHANGED <<kegg_rxn_dict, sort_todo, sort_pc>>

\* Both loops are over: SortKeggReactions returns
SortReturn ==
    /\ UNCHANGED <<expVars, bldVars, kmiVars, fetchVars, batchVars, keggVars, carbonVars>>
    /\ sort_pc = "loop"
    /\ sort_comp_id = None
    /\ sort_todo = {}
    /\ sort_pc' = "done"
    /\ UNCHANGED <<kegg_comp_dict, kegg_rxn_dict, sort_todo, sort_comp_id, sort_i,
                   allow_call>>

SortNext ==
    \/ SortNextComp
    \/ SortReaction
    \/ SortReturn

SpecSort == SortInit /\ [][SortNext]_vars

-----------------------------------------------------------------------------
(* GetKeggText, KeggRestDict, FormatKeggCompound, FormatKeggReaction and    *)
(* the batches GetKeggComps / GetKeggRxns, whose results GetRawKegg loops   *)
(* over. The batches are the code of ThreadedGetComps around                *)
(* FormatKeggCompound(GetKeggText(id)) or FormatKeggReaction(...): the      *)
(* steps of the main thread, work.get() and work.task_done() are the        *)
(* actions above.                                                           *)

C06142 == <<"C", "0", "6", "1", "4", "2">>
C99999 == <<"C", "9", "9", "9", "9", "9">>
X99999 == <<"X", "9", "9", "9", "9", "9">>
R01393 == <<"R", "0", "1", "3", "9", "3">>
R03544 == <<"R", "0", "3", "5", "4", "4">>
R03545 == <<"R", "0", "3", "5", "4", "5">>
C00168 == <<"C", "0", "0", "1", "6", "8">>
C00266 == <<"C", "0", "0", "2", "6", "6">>
RP01475 == <<"R", "P", "0", "1", "4", "7", "5">>
RP06553 == <<"R", "P", "0", "6", "5", "5", "3">>

\* A line of a KEGG record as line.split() sees it: key is the first word of a
\* line that does not start with a space ("" for a line that does, "///" for
\* the line that ends the record), vals are the other words.
KeggLine(key, vals) == [key |-> key, vals |-> vals]

\* The records the KEGG server holds (r.text of a request answered with 200):
\* the compound and the reaction of test_FormatKeggCompound and
\* test_FormatKeggReaction
KeggServer ==
    (C06142 :> << KeggLine("ENTRY", <<C06142, <<"C", "o", "m", "p", "o", "u", "n", "d">>>>),
                  KeggLine("NAME", <<<<"1", "-", "B", "u", "t", "a", "n", "o", "l", ";">>>>),
                  KeggLine("", <<<<"n", "-", "B", "u", "t", "a", "n", "o", "l">>>>),
                  KeggLine("FORMULA", <<<<"C", "4", "H", "1", "0", "O">>>>),
                  KeggLine("REACTION", <<R03544, R03545>>),
                  KeggLine("///", <<>>) >>) @@
    (R01393 :> << KeggLine("ENTRY", <<R01393, <<"R", "e", "a", "c", "t", "i", "o", "n">>>>),
                  KeggLine("EQUATION", <<C00168, <<"<", "=", ">">>, C00266, <<"+">>, C00011>>),
                  KeggLine("RPAIR", <<RP01475, PairName(C00168, C00266), <<"m", "a", "i", "n">>,
                                      <<"[", "R", "C", ":", "R", "C", "0", "0", "5", "0", "6", "]">>>>),
                  KeggLine("", <<RP06553, PairName(C00011, C00168), <<"l", "e", "a", "v", "e">>>>),
                  KeggLine("ENZYME", <<<<"4", ".", "1", ".", "1", ".", "4", "0">>>>),
                  KeggLine("///", <<>>) >>)

\* Chem.MolToSmiles of the mol file of a compound
KeggSmiles == (C06142 :> <<"C", "C", "C", "C", "O">>)

\* re.fullmatch("^C[0-9]{5}$", kegg_id) for letter "C", "^R[0-9]{5}$" for "R"
IsKeggId(letter, kegg_id) ==
    /\ Len(kegg_id) = 1 + KeggDigits
    /\ kegg_id[1] = letter
    /\ \A i \in 2..Len(kegg_id) : IsDigit(kegg_id[i])

\* kegg_dict[key].extend(line), or kegg_dict[key] = line on KeyError
Extend(kegg_dict, key, line) ==
    IF key \in DOMAIN kegg_dict THEN [kegg_dict EXCEPT ![key] = @ \o line]
    ELSE Put(kegg_dict, key, line)

\* The loop of KeggRestDict over the lines that are left, with the dictionary
\* and the key of the last line that had one ("" while no line had one: the
\* NameError, after which the line is dropped)
RECURSIVE KeggRestLoop(_, _, _)
KeggRestLoop(lines, kegg_dict, key) ==
    IF lines = <<>> THEN kegg_dict
    ELSE LET line == Head(lines)
         IN  IF line.key = "///" THEN kegg_dict
             ELSE IF line.key # ""
             THEN KeggRestLoop(Tail(lines), Extend(kegg_dict, line.key, line.vals),
                               line.key)
             ELSE IF key = "" THEN KeggRestLoop(Tail(lines), kegg_dict, key)
             ELSE KeggRestLoop(Tail(lines), Extend(kegg_dict, key, line.vals), key)

\* KeggRestDict(kegg_text) for a text; kegg_text.split raises AttributeError
\* when kegg_text is None
KeggRestDict(kegg_text) == KeggRestLoop(kegg_text, EmptyDict, "")

\* segment.rstrip(";")
RECURSIVE RStrip(_)
RStrip(segment) ==
    IF segment # <<>> /\ segment[Len(segment)] = ";"
    THEN RStrip(SubSeq(segment, 1, Len(segment) - 1))
    ELSE segment

\* " ".join(name)
RECURSIVE Join(_)
Join(name) ==
    IF name = <<>> THEN <<>>
    ELSE IF Len(name) = 1 THEN name[1]
    ELSE name[1] \o <<" ">> \o Join(Tail(name))

\* The loop over kegg_dict['NAME'] and the trailing name
RECURSIVE NamesLoop(_, _, _)
NamesLoop(segments, names, name) ==
    IF segments = <<>>
    THEN IF name # <<>> THEN Append(names, Join(name)) ELSE names
    ELSE LET segment == Head(segments)
         IN  IF segment # <<>> /\ segment[Len(segment)] = ";"
             THEN NamesLoop(Tail(segments),
                            Append(names, Join(Append(name, RStrip(segment)))), <<>>)
             ELSE NamesLoop(Tail(segments), names, Append(name, segment))

\* FormatKeggCompound(kegg_text) for a text; smiles is what GetKeggMolSmiles
\* returns, None when the mol file could not be had
FormatKeggCompound(kegg_text, smiles) ==
    LET kegg_dict == KeggRestDict(kegg_text)
    IN  IF "ENTRY" \notin DOMAIN kegg_dict THEN None
        ELSE LET _id == kegg_dict.ENTRY[1]
                 c1 == [_id |-> _id, DB_links |-> [KEGG |-> <<_id>>]]
                 c2 == IF smiles # None THEN Put(c1, "SMILES", smiles) ELSE c1
                 c3 == IF "NAME" \in DOMAIN kegg_dict
                       THEN Put(c2, "Names", NamesLoop(kegg_dict.NAME, <<>>, <<>>))
                       ELSE c2
                 c4 == IF "FORMULA" \in DOMAIN kegg_dict
                       THEN Put(c3, "Formula", kegg_dict.FORMULA[1]) ELSE c3
                 c5 == IF "REACTION" \in DOMAIN kegg_dict
                       THEN Put(c4, "Reactions", kegg_dict.REACTION) ELSE c4
             IN  IF ~IsKeggId("C", _id) THEN None ELSE c5

\* re.fullmatch("^[0-9]+$", segment)
IsNumber(segment) == segment # <<>> /\ \A i \in DOMAIN segment : IsDigit(segment[i])

\* The loop over kegg_dict['EQUATION']: [Reactants, Products]
RECURSIVE EquationLoop(_, _, _, _, _)
EquationLoop(segments, reactants, n, Reactants, Products) ==
    IF segments = <<>> THEN <<Reactants, Products>>
    ELSE LET segment == Head(segments)
             rest == Tail(segments)
         IN  IF segment = <<"<", "=", ">">> THEN EquationLoop(rest, FALSE, 1, Reactants, Products)
             ELSE IF segment = <<"+">> THEN EquationLoop(rest, reactants, 1, Reactants, Products)
             ELSE IF IsNumber(segment)
             THEN EquationLoop(rest, reactants, ParseInt(segment), Reactants, Products)
             ELSE IF reactants
             THEN EquationLoop(rest, reactants, n, Append(Reactants, <<n, segment>>),
                               Products)
             ELSE EquationLoop(rest, reactants, n, Reactants,
                               Append(Products, <<n, segment>>))

\* The loop over kegg_dict['RPAIR']
RECURSIVE RPairLoop(_, _, _)
RPairLoop(segments, RPair, p_list) ==
    IF segments = <<>> THEN RPair
    ELSE LET segment == Head(segments)
         IN  IF segment[1] = "["
             THEN RPairLoop(Tail(segments), RPair, p_list)
             ELSE IF Len(p_list) = 2
             THEN RPairLoop(Tail(segments),
                            Put(RPair, p_list[1], <<p_list[2], segment>>), <<>>)
             ELSE RPairLoop(Tail(segments), RPair, Append(p_list, segment))

\* FormatKeggReaction(kegg_text) for a text
FormatKeggReaction(kegg_text) ==
    LET kegg_dict == KeggRestDict(kegg_text)
    IN  IF "ENTRY" \notin DOMAIN kegg_dict THEN None
        ELSE IF ~IsKeggId("R", kegg_dict.ENTRY[1]) THEN None
        ELSE IF "EQUATION" \notin DOMAIN kegg_dict THEN None
        ELSE LET eq == EquationLoop(kegg_dict.EQUATION, TRUE, 1, <<>>, <<>>)
             IN  [_id |-> kegg_dict.ENTRY[1],
                  Operators |-> IF "ENZYME" \in DOMAIN kegg_dict
                                THEN kegg_dict.ENZYME ELSE <<<<"N", "A">>>>,
                  Reactants |-> eq[1],
                  Products |-> eq[2],
                  RPair |-> IF "RPAIR" \in DOMAIN kegg_dict
                            THEN RPairLoop(kegg_dict.RPAIR, EmptyDict, <<>>)
                            ELSE EmptyDict]

\* The ids a batch is asked for: a compound and a reaction the server holds,
\* a well-formed id it does not hold, and an id that is not a KEGG id
KeggPool == {C06142, R01393, C99999, X99999}

KeggLists == UNION {[1..k -> KeggPool] : k \in 0..MaxBatch}

KeggInit ==
    /\ PipelineIdle
    /\ FetchIdle
    /\ SortIdle
    /\ CarbonIdle
    /\ kegg_fn \in {"GetKeggComps", "GetKeggRxns"}
    /\ batch_id_list \in KeggLists
    /\ work = <<>>
    /\ output = <<>>
    /\ unfinished_tasks = 0
    /\ threads = 0
    /\ batch_todo = batch_id_list
    /\ stops = 0
    /\ w_pc = [w \in 1..MaxWorkers |-> "idle"]
    /\ w_item = [w \in 1..MaxWorkers |-> None]
    /\ batch_comps = <<>>
    /\ main_pc = "start"
    /\ w_n = [w \in 1..MaxWorkers |-> 0]
    /\ w_text = [w \in 1..MaxWorkers |-> None]
    /\ w_responses = [w \in 1..MaxWorkers |-> <<>>]
    /\ w_warning = [w \in 1..MaxWorkers |-> ""]
    /\ kegg_dict_out = EmptyDict
    /\ raw_pc = "call"

\* GetKeggText up to "n = 0": an id that is neither a reaction id nor a
\* compound id returns None without a request
GetKeggTextStart(w) ==
    /\ kegg_fn # ""
    /\ w_pc[w] = "fetch"
    /\ IF IsKeggId("R", w_item[w]) \/ IsKeggId("C", w_item[w])
       THEN /\ w_n' = [w_n EXCEPT ![w] = 0]
            /\ w_pc' = [w_pc EXCEPT ![w] = "request"]
            /\ w_warning' = [w_warning EXCEPT ![w] = ""]
            /\ UNCHANGED w_text
       ELSE /\ w_text' = [w_text EXCEPT ![w] = None]
            /\ w_pc' = [w_pc EXCEPT ![w] = "format"]
            /\ w_warning' = [w_warning EXCEPT ![w] = "not a valid KEGG reaction or compound ID"]
            /\ UNCHANGED w_n
    /\ w_responses' = [w_responses EXCEPT ![w] = <<>>]
    /\ UNCHANGED <<kegg_fn, kegg_dict_out, raw_pc>>
    /\ UNCHANGED <<batch_id_list, work, output, unfinished_tasks, threads, batch_todo,
                   stops, w_item, batch_comps, main_pc>>
    /\ UNCHANGED <<expVars, bldVars, kmiVars, fetchVars, sortVars, carbonVars>>

\* GetKeggTextRequest that gives up when n exceeds the limit
GetKeggTextRequest_OneMore(w) ==
    /\ w_pc[w] = "request"
    /\ \E status_200 \in IF w_item[w] \in DOMAIN KeggServer THEN BOOLEAN ELSE {FALSE} :
           /\ w_responses' = [w_responses EXCEPT ![w] = Append(@, status_200)]
           /\ IF status_200
              THEN /\ w_text' = [w_text EXCEPT ![w] = KeggServer[w_item[w]]]
                   /\ w_pc' = [w_pc EXCEPT ![w] = "format"]
                   /\ UNCHANGED <<w_n, w_warning>>
              ELSE /\ w_n' = [w_n EXCEPT ![w] = @ + 1]
                   /\ IF w_n'[w] > RequestLimit
                      THEN /\ w_text' = [w_text EXCEPT ![w] = None]
                           /\ w_pc' = [w_pc EXCEPT ![w] = "format"]
                           /\ w_warning' = [w_warning EXCEPT ![w] =
                                                "Unable to download KEGG data"]
                      ELSE UNCHANGED <<w_text, w_pc, w_warning>>
    /\ UNCHANGED <<kegg_fn, kegg_dict_out, raw_pc>>
    /\ UNCHANGED <<batch_id_list, work, output, unfinished_tasks, threads, batch_todo,
                   stops, w_item, batch_comps, main_pc>>
    /\ UNCHANGED <<expVars, bldVars, kmiVars, fetchVars, sortVars, carbonVars>>

\* One iteration of "while True" in GetKeggText: r = rget(krest). The server
\* answers 200 or not for a record it holds, and never 200 for another id.
GetKeggTextRequest(w) ==
    /\ w_pc[w] = "request"
    /\ \E status_200 \in IF w_item[w] \in DOMAIN KeggServer THEN BOOLEAN ELSE {FALSE} :
           /\ w_responses' = [w_responses EXCEPT ![w] = Append(@, status_200)]
           /\ IF status_200
              THEN /\ w_text' = [w_text EXCEPT ![w] = KeggServer[w_item[w]]]
                   /\ w_pc' = [w_pc EXCEPT ![w] = "format"]
                   /\ UNCHANGED <<w_n, w_warning>>
              ELSE /\ w_n' = [w_n EXCEPT ![w] = @ + 1]
                   /\ IF w_n'[w] >= RequestLimit
                      THEN /\ w_text' = [w_text EXCEPT ![w] = None]
                           /\ w_pc' = [w_pc EXCEPT ![w] = "format"]
                           /\ w_warning' = [w_warning EXCEPT ![w] =
                                                "Unable to download KEGG data"]
                      ELSE UNCHANGED <<w_text, w_pc, w_warning>>
    /\ UNCHANGED <<kegg_fn, kegg_dict_out, raw_pc>>
    /\ UNCHANGED <<batch_id_list, work, output, unfinished_tasks, threads, batch_todo,
                   stops, w_item, batch_comps, main_pc>>
    /\ UNCHANGED <<expVars, bldVars, kmiVars, fetchVars, sortVars, carbonVars>>

\* output.put(FormatKeggCompound(text)) or output.put(FormatKeggReaction(text))
\* with the text GetKeggText returned. KeggRestDict(None) raises
\* AttributeError, which nothing in Worker catches: the thread ends there,
\* before output.put and before work.task_done().
WorkerFormat(w) ==
    /\ w_pc[w] = "format"
    /\ IF w_text[w] = None
       THEN /\ w_pc' = [w_pc EXCEPT ![w] = "crashed"]
            /\ UNCHANGED output
       ELSE /\ \E mol_ok \in BOOLEAN :
                   LET _id == w_text[w][1].vals[1]
                       smiles == IF mol_ok /\ _id \in DOMAIN KeggSmiles
                                 THEN KeggSmiles[_id] ELSE None
                   IN  output' = Append(output,
                                        IF kegg_fn = "GetKeggComps"
                                        THEN FormatKeggCompound(w_text[w], smiles)
                                        ELSE FormatKeggReaction(w_text[w]))
            /\ w_pc' = [w_pc EXCEPT ![w] = "task_done"]
    /\ UNCHANGED <<kegg_fn, w_n, w_text, w_responses, w_warning, kegg_dict_out, raw_pc>>
    /\ UNCHANGED <<batch_id_list, work, unfinished_tasks, threads, batch_todo,
                   stops, w_item, batch_comps, main_pc>>
    /\ UNCHANGED <<expVars, bldVars, kmiVars, fetchVars, sortVars, carbonVars>>

\* "for comp in GetKeggComps(kegg_comp_ids)" of GetRawKegg over the list
\* returned: None is skipped, a record goes into the dictionary under its _id
RECURSIVE RawKeggDict(_, _)
RawKeggDict(comps_, d) ==
    IF comps_ = <<>> THEN d
    ELSE LET comp == Head(comps_)
         IN  IF comp = None THEN RawKeggDict(Tail(comps_), d)
             ELSE IF "_id" \notin DOMAIN comp THEN RawKeggDict(Tail(comps_), d)
             ELSE RawKeggDict(Tail(comps_), Put(d, comp._id, comp))

\* The loop of GetRawKegg, once the batch has returned
RawKeggLoop ==
    /\ raw_pc = "call"
    /\ main_pc = "returned"
    /\ kegg_dict_out' = RawKeggDict(batch_comps, EmptyDict)
    /\ raw_pc' = "done"
    /\ UNCHANGED <<kegg_fn, w_n, w_text, w_responses, w_warning>>
    /\ UNCHANGED batchVars
    /\ UNCHANGED <<expVars, bldVars, kmiVars, fetchVars, sortVars, carbonVars>>

KeggNext ==
    \/ MainStartThread
    \/ MainPut
    \/ MainJoin
    \/ MainStop
    \/ MainJoinThreads
    \/ MainDrain
    \/ MainReturn
    \/ \E w \in 1..MaxWorkers : WorkerGet(w)
    \/ \E w \in 1..MaxWorkers : GetKeggTextStart(w)
    \/ \E w \in 1..MaxWorkers : GetKeggTextRequest(w)
    \/ \E w \in 1..MaxWorkers : WorkerFormat(w)
    \/ \E w \in 1..MaxWorkers : WorkerTaskDone(w)
    \/ RawKeggLoop

SpecKegg == KeggInit /\ [][KeggNext]_vars

-----------------------------------------------------------------------------
(* A call of LimitCarbon on its own *)

\* The characters of the formulas: carbon, another element, the second letter
\* of an element such as Cl, and digits
FormulaChars == {"C", "H", "l", "1", "2", "5"}

Formulas == UNION {[1..n -> FormulaChars] : n \in 0..MaxFormulaLen}

\* The compounds handed to LimitCarbon: without a formula, and with each one
CarbonComps == {[_id |-> cA]} \cup {[_id |-> cA, Formula |-> f] : f \in Formulas}

CarbonInit ==
    /\ PipelineIdle
    /\ FetchIdle
    /\ BatchIdle
    /\ SortIdle
    /\ KeggIdle
    /\ lc_comp \in CarbonComps
    /\ lc_limit \in (0..MaxCLimit) \cup {DefaultCLimit}
    /\ lc_result = FALSE
    /\ lc_pc = "call"

\* LimitCarbon(comp, C_limit) runs and returns
CarbonCall ==
    /\ lc_pc = "call"
    /\ lc_result' = LimitCarbon(lc_comp, lc_limit)
    /\ lc_pc' = "returned"
    /\ UNCHANGED <<lc_comp, lc_limit>>
    /\ UNCHANGED <<expVars, bldVars, kmiVars, fetchVars, batchVars, sortVars, keggVars>>

CarbonNext == CarbonCall

SpecCarbon == CarbonInit /\ [][CarbonNext]_vars

-----------------------------------------------------------------------------
(* Properties of GetRawNetwork *)

\* C2: on return from GetRawNetwork the compound map holds at most comp_limit
\* entries.
C2_CompLimitBound ==
    pc = "done" => Cardinality(Keys(comp_dict)) <= comp_limit

\* C3: an id placed in rxn_exceeding_C_limit or comp_exceeding_C_limit stays
\* there, is never afterwards added to rxn_dict or comp_dict, and an excluded
\* reaction id is not among the ids requested by any later step.
C3_ExclusionMonotone ==
    [][/\ rxn_exceeding_C_limit \subseteq rxn_exceeding_C_limit'
       /\ comp_exceeding_C_limit \subseteq comp_exceeding_C_limit'
       /\ rxn_exceeding_C_limit \cap Keys(rxn_dict') = {}
       /\ comp_exceeding_C_limit \cap Keys(comp_dict') = {}
       /\ (steps' # steps =>
              rxn_ids_to_download' \cap rxn_exceeding_C_limit = {})]_vars

\* C3 witness: a step is running in which an unexplored compound lists a
\* reaction excluded by an earlier step, and a compound excluded earlier is a
\* participant of a reaction downloaded in this step.
C3_Witness ==
    /\ pc = "rxns"
    /\ \E r \in rxn_exceeding_C_limit \ rxn_ids_to_download :
          \E c \in unextended_comp_ids :
              r \in Range(ExtractCompReactionIds(comp_dict[c]))
    /\ \E r \in rxn_ids_to_download \cap DOMAIN MineDB :
          \E c \in comp_exceeding_C_limit \ comp_ids_to_download :
              c \in Range(ExtractReactionCompIds(MineDB[r]))

\* C8: on return, no reaction of the reaction map has a participant whose
\* database record exceeds C_limit, and no compound of the compound map
\* exceeds C_limit.
C8_NoOverLimitParticipant ==
    pc = "done" =>
        /\ \A r \in Keys(rxn_dict) :
              \A c \in Range(ExtractReactionCompIds(rxn_dict[r])) :
                  (c \in DOMAIN MineDB /\ "Formula" \in DOMAIN MineDB[c]) =>
                      C_count(MineDB[c].Formula) <= C_limit
        /\ \A c \in Keys(comp_dict) :
              "Formula" \in DOMAIN comp_dict[c] =>
                  C_count(comp_dict[c].Formula) <= C_limit

\* C8 witness: the run has returned with reactions admitted, one reaction
\* discarded for its last participant (rR2: cA + cD -> cG) and one for its
\* first participant (rR5: cG + cF -> cA).
C8_Witness ==
    /\ pc = "done"
    /\ Keys(rxn_dict) # {}
    /\ {rR2, rR5} \subseteq rxn_exceeding_C_limit
    /\ cD \in Keys(comp_dict)

\* The seeds that the database holds and whose carbon count exceeds C_limit
RejectedSeeds ==
    {c \in Range(comp_id_list) \cap DOMAIN MineDB : LimitCarbon(MineDB[c], C_limit)}

\* C15: a seed whose carbon count exceeds C_limit is never in the compound
\* map and never among the frontier (unexplored) or explored compounds; when
\* every seed is rejected the run returns two empty maps.
C15_RejectedSeedLeftOut ==
    /\ RejectedSeeds \cap Keys(comp_dict) = {}
    /\ RejectedSeeds \cap (unextended_comp_ids \cup extended_comp_ids) = {}
    /\ (pc = "done" /\ Range(comp_id_list) \subseteq RejectedSeeds) =>
           Keys(comp_dict) = {} /\ Keys(rxn_dict) = {}

\* C15 witness: a run on two distinct seeds, both rejected, has returned after
\* at least one expansion step.
C15_Witness ==
    /\ pc = "done"
    /\ Len(comp_id_list) = 2
    /\ comp_id_list[1] # comp_id_list[2]
    /\ Range(comp_id_list) \subseteq RejectedSeeds
    /\ steps >= 1

\* The participants of reaction r whose lookup succeeds
FetchedParticipants(r) ==
    Range(ExtractReactionCompIds(MineDB[r])) \cap DOMAIN MineDB

\* C16: lookup failures (ids the database does not return) are never fatal
\* and stay local. An id whose lookup failed is in neither map nor in the
\* cache, and every entry is the record that was fetched; the seeds that were
\* fetched and pass the C limit are all admitted whatever seeds failed; at the
\* end of a step every fetched reaction of the step is admitted or excluded,
\* it is excluded only for a fetched participant that exceeds the C limit
\* (never for a participant or a fellow reaction whose lookup failed), and the
\* fetched participants of the admitted reactions are in the compound map.
C16_FailuresStayLocal ==
    /\ Keys(comp_dict) \cup Keys(rxn_dict) \cup Keys(comp_cache) \subseteq DOMAIN MineDB
    /\ \A c \in Keys(comp_dict) : comp_dict[c] = MineDB[c]
    /\ \A r \in Keys(rxn_dict) : rxn_dict[r] = MineDB[r]
    /\ pc \in {"while", "rxns", "harvest", "done"} =>
           (Range(comp_id_list) \cap DOMAIN MineDB) \ RejectedSeeds
               \subseteq Keys(comp_dict)
    /\ \A r \in rxn_exceeding_C_limit :
           \E c \in FetchedParticipants(r) : LimitCarbon(MineDB[c], C_limit)
    /\ (pc = "while" /\ steps > 0) =>
           /\ Fetched(rxn_ids_to_download)
                  \subseteq Keys(rxn_dict) \cup rxn_exceeding_C_limit
           /\ \A r \in Keys(rxn_dict) : FetchedParticipants(r) \subseteq Keys(comp_dict)

\* C16 witness: a run has returned in which the lookup of a seed (cZ) failed,
\* the lookup of a participant of an admitted reaction failed (cZ in rR1, whose
\* other product cB was harvested) and the lookup of a reaction requested in
\* the last step failed (rR9).
C16_Witness ==
    /\ pc = "done"
    /\ cZ \in Range(comp_id_list)
    /\ rR1 \in Keys(rxn_dict)
    /\ {cA, cB} \subseteq Keys(comp_dict)
    /\ rR9 \in rxn_ids_to_download

\* The step that was executed last admitted no reaction (the reactions it
\* requested were not in the reaction map before it)
NoNewReactions == rxn_ids_to_download \cap Keys(rxn_dict) = {}

\* C17: the expansion loop ends as soon as a step finds no new reactions: once
\* a step has ended without a new reaction, no further step is executed.
C17_EndsWhenNoNewReactions ==
    [][(pc = "while" /\ steps > 0 /\ NoNewReactions) => steps' = steps]_vars

\* C17, amended: the loop ends only at step_limit steps or at the compound
\* limit. Whatever the last step found, the next step is executed while
\* steps < step_limit; the steps that follow a step without new reactions
\* request no reaction and leave both maps as they are.
C17_EndsAtStepLimitOnly ==
    [][/\ (pc = "while" /\ steps < step_limit) => steps' = steps + 1
       /\ (pc # "done" /\ pc' = "done") =>
              (steps' = step_limit \/ comps' >= comp_limit)
       /\ (\/ pc = "while" /\ steps > 0 /\ NoNewReactions
           \/ pc = "rxns" /\ rxn_ids_to_download = {}) =>
              /\ comp_dict' = comp_dict
              /\ rxn_dict' = rxn_dict
              /\ (steps' # steps => rxn_ids_to_download' = {})]_vars

\* C17 witness: a run of three steps has returned: the first step admitted
\* rR1, the second found only rR3, which exceeds the C limit, and the third
\* was executed all the same, with nothing to request.
C17_Witness ==
    /\ pc = "done"
    /\ steps = 3
    /\ Keys(rxn_dict) = {rR1}
    /\ rR3 \in rxn_exceeding_C_limit
    /\ rxn_ids_to_download = {}

\* The fetched participants of reaction r that are not in the compound map
MissingParticipants(r) == FetchedParticipants(r) \ Keys(comp_dict)

\* C18: on return, every reactant and product of every reaction of the
\* reaction map whose record was fetched is in the compound map, also when the
\* run ends at the compound limit.
C18_ParticipantsInCompoundMap ==
    pc = "done" => \A r \in Keys(rxn_dict) : MissingParticipants(r) = {}

\* C18, amended: on a return that the compound limit did not cause, every
\* fetched participant of every reaction of the reaction map is in the
\* compound map. On a return at the compound limit this holds for all
\* reactions but at most one, the reaction that was being harvested: it is in
\* the reaction map and the participants it lacks are the compounds that were
\* still to be harvested.
C18_ParticipantsButLastHarvest ==
    pc = "done" =>
        /\ comps < comp_limit => \A r \in Keys(rxn_dict) : MissingParticipants(r) = {}
        /\ Cardinality({r \in Keys(rxn_dict) : MissingParticipants(r) # {}}) <= 1
        /\ \A r \in Keys(rxn_dict) : MissingParticipants(r) \subseteq new_rxn_comp_ids

\* C18 witness: a run has returned at the compound limit in the middle of a
\* harvest: the reaction map holds a reaction one of whose fetched
\* participants is not in the compound map, next to a complete reaction.
C18_Witness ==
    /\ pc = "done"
    /\ comps >= comp_limit
    /\ \E r \in Keys(rxn_dict) : MissingParticipants(r) # {}
    /\ \E r \in Keys(rxn_dict) : MissingParticipants(r) = {}

\* The run of GetRawNetwork in which every batch returns its results in the
\* order of their ids and every set is looped over in that order, as a
\* function of the arguments. Its state st holds the keys of the two maps (cd,
\* rd), the counter comps (n), the explored compounds (ext), the two exclusion
\* sets (rxc, cxc), the keys of the cache, and whether the compound limit has
\* ended the run (done).
RECURSIVE OrderedWalk(_, _, _, _)
OrderedWalk(st, rxn_comp_ids, i, new) ==
    IF i > Len(rxn_comp_ids) THEN [exceeding |-> <<>>, new |-> new]
    ELSE LET c == rxn_comp_ids[i]
         IN  IF c \in st.cd \/ c \notin st.cache
             THEN OrderedWalk(st, rxn_comp_ids, i + 1, new)
             ELSE IF LimitCarbon(MineDB[c], C_limit)
                  THEN [exceeding |-> c, new |-> new]
                  ELSE OrderedWalk(st, rxn_comp_ids, i + 1, new \cup {c})

RECURSIVE OrderedHarvest(_, _)
OrderedHarvest(st, todo) ==
    IF todo = <<>> THEN st
    ELSE LET st1 == [st EXCEPT !.cd = @ \cup {Head(todo)}, !.n = @ + 1]
         IN  IF st1.n >= comp_limit THEN [st1 EXCEPT !.done = TRUE]
             ELSE OrderedHarvest(st1, Tail(todo))

RECURSIVE OrderedRxns(_, _)
OrderedRxns(st, todo) ==
    IF st.done \/ todo = <<>> THEN st
    ELSE LET r == Head(todo)
             walk == OrderedWalk(st, ExtractReactionCompIds(MineDB[r]), 1, {})
         IN  IF walk.exceeding # <<>>
             THEN OrderedRxns([st EXCEPT !.cxc = @ \cup {walk.exceeding},
                                         !.rxc = @ \cup {r}], Tail(todo))
             ELSE OrderedRxns(OrderedHarvest([st EXCEPT !.rd = @ \cup {r}],
                                             Sorted(walk.new)), Tail(todo))

RECURSIVE OrderedSteps(_, _)
OrderedSteps(st, k) ==
    IF st.done \/ ~(k < step_limit) THEN st
    ELSE LET unext == st.cd \ st.ext
             req == {r \in UNION {Range(ExtractCompReactionIds(MineDB[c])) : c \in unext} :
                        r \notin st.rd /\ r \notin st.rxc}
             new == Fetched(req)
             dl == {c \in UNION {Range(ExtractReactionCompIds(MineDB[r])) : r \in new} :
                       c \notin st.cd /\ c \notin st.cache /\ c \notin st.cxc}
             st1 == OrderedRxns([st EXCEPT !.cache = @ \cup Fetched(dl)], Sorted(new))
         IN  IF st1.done THEN st1
             ELSE OrderedSteps([st1 EXCEPT !.ext = @ \cup unext], k + 1)

OrderedRun ==
    LET accepted == {i \in DOMAIN comp_id_list :
                        /\ comp_id_list[i] \in DOMAIN MineDB
                        /\ ~LimitCarbon(MineDB[comp_id_list[i]], C_limit)}
    IN  OrderedSteps([cd |-> {comp_id_list[i] : i \in accepted}, rd |-> {},
                      n |-> Cardinality(accepted), ext |-> {}, rxc |-> {},
                      cxc |-> {}, cache |-> {}, done |-> FALSE], 0)

\* The maps hold the same entries as those of the ordered run on the same
\* arguments (an entry is the database record of its key)
SameAsOrderedRun ==
    LET run == OrderedRun
    IN  /\ Keys(comp_dict) = run.cd
        /\ Keys(rxn_dict) = run.rd
        /\ \A c \in Keys(comp_dict) : comp_dict[c] = MineDB[c]
        /\ \A r \in Keys(rxn_dict) : rxn_dict[r] = MineDB[r]

\* C19: the pair returned by GetRawNetwork does not depend on the order in
\* which the batches return their results: every run returns the maps of the
\* run on the same arguments whose batches return their results in id order.
C19_OrderIndependent ==
    pc = "done" => SameAsOrderedRun

\* Below the compound limit the order of the batch results does not matter: a
\* run that returns with comps < comp_limit, or on arguments for which the
\* ordered run does not reach the limit, returns the maps of the ordered run.
OrderIndependentBelowLimit ==
    (pc = "done" /\ (comps < comp_limit \/ ~OrderedRun.done)) => SameAsOrderedRun

\* A run has returned below the compound limit after a step whose
\* batch held three reactions, two admitted and one discarded.
OrderIndependentBelowLimit_Witness ==
    /\ pc = "done"
    /\ comps < comp_limit
    /\ Cardinality(rxn_ids_to_download \cap Keys(rxn_dict)) = 2
    /\ rxn_ids_to_download \cap rxn_exceeding_C_limit # {}

\* C34: GetRawNetwork always terminates, every batch fetch returning: the
\* expansion loop begins at most step_limit steps, whatever the reaction
\* network, and the function returns.
C34_Terminates ==
    /\ [](steps <= step_limit)
    /\ <>(pc = "done")

\* C34 witness: the function has returned after the largest number of steps,
\* over a network in which a reaction leads back to a compound already stored.
C34_Witness ==
    /\ pc = "done"
    /\ steps = step_limit
    /\ step_limit = MaxSteps
    /\ \E r \in Keys(rxn_dict) :
           /\ Range(ExtractReactionCompIds(rxn_dict[r])) \subseteq Keys(comp_dict)
           /\ \E c \in Range(ExtractReactionCompIds(rxn_dict[r])) :
                  r \in Range(ExtractCompReactionIds(comp_dict[c]))

\* The seeds that GetRawNetwork accepts: in the database and within C_limit
AcceptedSeeds ==
    {comp_id \in Range(comp_id_list) :
        comp_id \in DOMAIN MineDB /\ ~LimitCarbon(MineDB[comp_id], C_limit)}

\* The compounds of the compound map one reaction of the reaction map away
\* from a compound of S: the reaction is listed in Reactant_in or Product_of of
\* the compound of S, and the new compound is a reactant or product of it
OneReactionFrom(S) ==
    {y \in Keys(comp_dict) :
        \E c \in S \cap Keys(comp_dict) : \E r \in Keys(rxn_dict) :
            /\ r \in Range(ExtractCompReactionIds(comp_dict[c]))
            /\ y \in Range(ExtractReactionCompIds(rxn_dict[r]))}

\* The compounds linked to an accepted seed by a chain of at most k reactions
RECURSIVE WithinReactions(_)
WithinReactions(k) ==
    IF k = 0 THEN AcceptedSeeds \cap Keys(comp_dict)
    ELSE WithinReactions(k - 1) \cup OneReactionFrom(WithinReactions(k - 1))

\* C35: after GetRawNetwork with step limit k, every compound of the compound
\* map is an accepted seed or is linked to one by a chain of at most k
\* reactions of the reaction map, each listed in Reactant_in or Product_of of
\* the compound before it; with k = 0 the compound map holds the accepted
\* seeds only and the reaction map is empty.
C35_WithinStepLimit ==
    pc = "done" =>
        /\ Keys(comp_dict) \subseteq WithinReactions(step_limit)
        /\ step_limit = 0 =>
               /\ Keys(comp_dict) = AcceptedSeeds
               /\ rxn_dict = EmptyDict

\* C35 witness: a run of two steps or more has returned a compound that no
\* shorter chain links to a seed.
C35_Witness ==
    /\ pc = "done"
    /\ step_limit >= 2
    /\ Keys(comp_dict) \ WithinReactions(step_limit - 1) # {}

\* C36: at every point of a GetRawNetwork run, every compound of the compound
\* map is an accepted seed or a reactant or product of a reaction that is
\* already in the reaction map: no compound is harvested from a reaction that
\* was discarded or not admitted.
C36_HarvestedFromAdmitted ==
    \A c \in Keys(comp_dict) :
        \/ c \in AcceptedSeeds
        \/ \E r \in Keys(rxn_dict) : c \in Range(ExtractReactionCompIds(rxn_dict[r]))

\* C36 witness: a compound that is no seed is in the compound map, while a
\* reaction of the same step has been discarded after one of its participants
\* had passed the C limit.
C36_Witness ==
    /\ Keys(comp_dict) \ AcceptedSeeds # {}
    /\ \E r \in rxn_exceeding_C_limit :
           \E c \in Range(ExtractReactionCompIds(MineDB[r])) :
               /\ c \in Keys(comp_cache) \ Keys(comp_dict)
               /\ ~LimitCarbon(comp_cache[c], C_limit)

\* C37: throughout GetRawNetwork the running compound counter equals the
\* number of entries of the compound map, for every seed list, one that names
\* the same compound more than once included.
C37_CounterIsMapSize ==
    comps = Cardinality(Keys(comp_dict))

\* No compound is named more than once in the seed list
DistinctSeeds ==
    \A i, j \in DOMAIN comp_id_list : comp_id_list[i] = comp_id_list[j] => i = j

\* For a seed list that names no compound twice the counter is the size of the
\* compound map; for every seed list it is at least that size.
CounterIsMapSizeForDistinctSeeds ==
    /\ DistinctSeeds => comps = Cardinality(Keys(comp_dict))
    /\ comps >= Cardinality(Keys(comp_dict))

\* A run on two distinct seeds has harvested compounds and reached its return
CounterIsMapSizeForDistinctSeeds_Witness ==
    /\ pc = "done"
    /\ DistinctSeeds
    /\ Len(comp_id_list) = 2
    /\ comps > 2

-----------------------------------------------------------------------------
(* Properties of LimitCarbon *)

\* The number written by a string of digits, read from the left
RECURSIVE Horner(_, _)
Horner(digits, acc) ==
    IF digits = <<>> THEN acc
    ELSE Horner(Tail(digits), 10 * acc + DigitVal(Head(digits)))

\* The carbon count of a formula: the integer that follows the first 'C', 1
\* when no digit follows it, 0 when the formula has no 'C'
CarbonsOf(formula) ==
    IF \A i \in DOMAIN formula : formula[i] # "C" THEN 0
    ELSE LET p == CHOOSE i \in DOMAIN formula :
                      formula[i] = "C" /\ \A j \in 1..(i - 1) : formula[j] # "C"
             k == CHOOSE n \in 0..(Len(formula) - p) :
                      /\ \A i \in 1..n : IsDigit(formula[p + i])
                      /\ p + n + 1 <= Len(formula) => ~IsDigit(formula[p + n + 1])
         IN  IF k = 0 THEN 1 ELSE Horner(SubSeq(formula, p + 1, p + k), 0)

\* C38: LimitCarbon(comp, L) returns True iff the compound has a formula whose
\* carbon count is strictly greater than L; a compound with exactly L carbons
\* does not exceed the limit, a compound without a formula never does.
C38_LimitCarbon ==
    lc_pc = "returned" =>
        (lc_result <=> /\ "Formula" \in DOMAIN lc_comp
                       /\ CarbonsOf(lc_comp.Formula) > lc_limit)

\* C38 witness: a compound with exactly 25 carbons has passed the limit of 25.
C38_Witness ==
    /\ lc_pc = "returned"
    /\ "Formula" \in DOMAIN lc_comp
    /\ lc_comp.Formula = <<"C", "2", "5">>
    /\ lc_limit = DefaultCLimit
    /\ ~lc_result

-----------------------------------------------------------------------------
(* Properties of the graph construction *)

CompoundNodes(G) == {n \in DOMAIN G.node : G.node[n].type = "c"}

RoleNodes(G) == {n \in DOMAIN G.node : G.node[n].type \in {"rf", "pf", "rr", "pr"}}

\* The compound-id index of the graph; empty while no compound node was added
Index(G) == IF "cmid2node" \in DOMAIN G.graph THEN G.graph.cmid2node ELSE <<>>

WellFormedRxn(rxn) ==
    /\ {"_id", "Reactants", "Products"} \subseteq DOMAIN rxn
    /\ \A x \in Range(rxn.Reactants) \cup Range(rxn.Products) : Len(x) >= 2

ReactantIds(rxn) == {x[2] : x \in Range(rxn.Reactants)}

ProductIds(rxn) == {x[2] : x \in Range(rxn.Products)}

\* The nodes of G with the given role and reaction id
RoleOf(G, role, rxn_id) ==
    {n \in DOMAIN G.node : G.node[n].type = role /\ G.node[n].mid = rxn_id}

\* C1: AddQuadReactionNode is all-or-nothing. For a well-formed reaction whose
\* participants all resolve through the index, exactly four nodes are added, one
\* of each role, and exactly the two role-to-role edges rf -> pf and rr -> pr;
\* nothing that was in the graph is changed. When a participant does not
\* resolve, the node set and the edge set are unchanged.
C1_AllOrNothing ==
    [][(pc = "reactions" /\ todo_rxns # <<>> /\ WellFormedRxn(rxn_dict[Head(todo_rxns)])) =>
        LET rxn == rxn_dict[Head(todo_rxns)]
            G == minetwork
            H == minetwork'
            added == (DOMAIN H.node) \ (DOMAIN G.node)
            resolved == (ReactantIds(rxn) \cup ProductIds(rxn)) \subseteq DOMAIN Index(G)
        IN  IF resolved
            THEN /\ Cardinality(added) = 4
                 /\ \A role \in {"rf", "pf", "rr", "pr"} :
                        Cardinality(RoleOf(H, role, rxn._id) \cap added) = 1
                 /\ \A n \in DOMAIN G.node : H.node[n] = G.node[n]
                 /\ G.edge \subseteq H.edge
                 /\ {e \in H.edge \ G.edge : e[1] \in added /\ e[2] \in added}
                        = (RoleOf(H, "rf", rxn._id) \X RoleOf(H, "pf", rxn._id)) \cup
                          (RoleOf(H, "rr", rxn._id) \X RoleOf(H, "pr", rxn._id))
            ELSE H.node = G.node /\ H.edge = G.edge]_vars

\* C1 witness: the reaction loop over QuadRxns has ended: R1, R2 and R5 were
\* added (12 role nodes on 5 compound nodes) and R3, whose product C9 has no
\* node, left nothing.
C1_Witness ==
    /\ pc = "built"
    /\ rxn_dict = QuadRxns
    /\ Cardinality(DOMAIN minetwork.node) = 17
    /\ RoleOf(minetwork, "rf", R1) # {}
    /\ \A role \in {"rf", "pf", "rr", "pr"} : RoleOf(minetwork, role, R3) = {}

\* The record of a compound node in mine_data has the list `key` and the list
\* holds the reaction id of role node r
Listed(G, c, r, key) ==
    /\ "mine_data" \in DOMAIN G.graph
    /\ G.node[c].mid \in DOMAIN G.graph.mine_data
    /\ key \in DOMAIN G.graph.mine_data[G.node[c].mid]
    /\ \E i \in DOMAIN G.graph.mine_data[G.node[c].mid][key] :
           G.graph.mine_data[G.node[c].mid][key][i] = G.node[r].mid

\* C4: CheckConnection(graph, c, r) is true iff r's reaction id is in the
\* Reactant_in list of c's record when r is an rf or pr node, or in the
\* Product_of list when r is a pf or rr node; with the list or the record
\* absent it is false.
C4_CheckConnection ==
    \A c \in CompoundNodes(minetwork) : \A r \in RoleNodes(minetwork) :
        CheckConnection(minetwork, c, r) <=>
            \/ minetwork.node[r].type \in {"rf", "pr"} /\ Listed(minetwork, c, r, "Reactant_in")
            \/ minetwork.node[r].type \in {"pf", "rr"} /\ Listed(minetwork, c, r, "Product_of")

\* C4 witness: a graph in which CheckConnection is true for one pair, false
\* for a pair whose list is absent (C1 and the pf node of R5: C1 has no
\* Product_of) and false for a pair whose reaction is only in the other list
\* (C2 and the rf node of R1: R1 is in C2's Product_of).
C4_Witness ==
    /\ rxn_dict = QuadRxns
    /\ "mine_data" \in DOMAIN minetwork.graph
    /\ \E c \in CompoundNodes(minetwork) : \E r \in RoleOf(minetwork, "rf", R1) :
           minetwork.node[c].mid = C1 /\ CheckConnection(minetwork, c, r)
    /\ \E c \in CompoundNodes(minetwork) : \E r \in RoleOf(minetwork, "pf", R5) :
           minetwork.node[c].mid = C1 /\ ~CheckConnection(minetwork, c, r)
    /\ \E c \in CompoundNodes(minetwork) : \E r \in RoleOf(minetwork, "rf", R1) :
           minetwork.node[c].mid = C2 /\ ~CheckConnection(minetwork, c, r)

\* Reaction r_id is in the list `key` of the record of compound c_id
InList(c_id, key, r_id) ==
    /\ c_id \in DOMAIN comp_dict
    /\ key \in DOMAIN comp_dict[c_id]
    /\ r_id \in Range(comp_dict[c_id][key])

\* C5: in a graph built by ConstructNetwork, c -> rf and pr -> c exist exactly
\* when c is a reactant of the reaction and the reaction is in c's Reactant_in;
\* pf -> c and c -> rr exist exactly when c is a product and the reaction is in
\* c's Product_of; a compound node has no other edge.
C5_AttestedEdges ==
    via_construct =>
        LET G == minetwork
            mid(n) == G.node[n].mid
            type(n) == G.node[n].type
            asReactant(c, r) == /\ mid(c) \in ReactantIds(rxn_dict[mid(r)])
                                /\ InList(mid(c), "Reactant_in", mid(r))
            asProduct(c, r) == /\ mid(c) \in ProductIds(rxn_dict[mid(r)])
                               /\ InList(mid(c), "Product_of", mid(r))
        IN  /\ \A c \in CompoundNodes(G) : \A r \in RoleNodes(G) :
                /\ <<c, r>> \in G.edge <=>
                       \/ type(r) = "rf" /\ asReactant(c, r)
                       \/ type(r) = "rr" /\ asProduct(c, r)
                /\ <<r, c>> \in G.edge <=>
                       \/ type(r) = "pr" /\ asReactant(c, r)
                       \/ type(r) = "pf" /\ asProduct(c, r)
            /\ \A c \in CompoundNodes(G) : \A d \in DOMAIN G.node :
                   (<<c, d>> \in G.edge \/ <<d, c>> \in G.edge) => d \in RoleNodes(G)

\* C5 witness: ConstructNetwork has returned the QuadComps graph: C1 -> rf(R1)
\* is attested, X1 is a member of rf(R1) without edge (R1 is not in its
\* Reactant_in), and X1 lists R2 without being a member of it.
C5_Witness ==
    /\ pc = "built"
    /\ via_construct
    /\ rxn_dict = QuadRxns
    /\ \E r \in RoleOf(minetwork, "rf", R1) :
          /\ <<Index(minetwork)[C1], r>> \in minetwork.edge
          /\ Index(minetwork)[X1] \in minetwork.node[r].c
          /\ <<Index(minetwork)[X1], r>> \notin minetwork.edge
    /\ \E r \in RoleOf(minetwork, "rf", R2) :
          /\ Index(minetwork)[X1] \notin minetwork.node[r].c
          /\ <<Index(minetwork)[X1], r>> \notin minetwork.edge

\* C6: the rf and pr nodes of a reaction have as members exactly the compound
\* nodes of its reactants, the pf and rr nodes those of its products, and the
\* edges between role nodes are exactly rf -> pf and rr -> pr of one reaction.
C6_MembersAndRoleEdges ==
    LET G == minetwork
        nodesOf(ids) == {Index(G)[x] : x \in ids}
    IN  /\ \A r \in RoleNodes(G) :
            G.node[r].c = IF G.node[r].type \in {"rf", "pr"}
                          THEN nodesOf(ReactantIds(rxn_dict[G.node[r].mid]))
                          ELSE nodesOf(ProductIds(rxn_dict[G.node[r].mid]))
        /\ \A r \in RoleNodes(G) : \A q \in RoleNodes(G) :
            <<r, q>> \in G.edge <=>
                /\ G.node[r].mid = G.node[q].mid
                /\ <<G.node[r].type, G.node[q].type>> \in {<<"rf", "pf">>, <<"rr", "pr">>}

\* C6 witness: the network of test_ConstructNetwork is built; R99 (C1 -> C2 +
\* C3) has member sets {1} and {2, 3}.
C6_Witness ==
    /\ pc = "built"
    /\ rxn_dict = Net8Rxns
    /\ \E r \in RoleOf(minetwork, "rr", R99) : minetwork.node[r].c = {2, 3}
    /\ \E r \in RoleOf(minetwork, "pr", R99) : minetwork.node[r].c = {1}
    /\ Cardinality({e \in minetwork.edge : e[1] \in RoleNodes(minetwork)
                                           /\ e[2] \in RoleNodes(minetwork)}) = 10

\* C7: the index cmid2node maps each compound id to one node, which is a
\* compound node carrying that id; no two ids share a node; every compound node
\* is the image of its own id; and on return every compound of the compound map
\* that has an id is indexed.
C7_IndexExact ==
    via_construct =>
        LET G == minetwork
            idx == Index(G)
        IN  /\ \A m \in DOMAIN idx :
                /\ idx[m] \in CompoundNodes(G)
                /\ G.node[idx[m]].mid = m
            /\ \A m1 \in DOMAIN idx : \A m2 \in DOMAIN idx :
                   idx[m1] = idx[m2] => m1 = m2
            /\ \A n \in CompoundNodes(G) :
                   G.node[n].mid \in DOMAIN idx /\ idx[G.node[n].mid] = n
            /\ pc = "built" =>
                   \A k \in DOMAIN comp_dict :
                       "_id" \in DOMAIN comp_dict[k] => comp_dict[k]._id \in DOMAIN idx

\* C7 witness: ConstructNetwork has returned a graph of eight compound nodes.
C7_Witness ==
    /\ pc = "built"
    /\ via_construct
    /\ Cardinality(CompoundNodes(minetwork)) = 8
    /\ Cardinality(DOMAIN Index(minetwork)) = 8

\* The dictionary d without the keys outside S
Restrict(d, S) == [k \in S \cap DOMAIN d |-> d[k]]

\* The compound records that AddCompoundNode skips, and the map without them
SkippedComps(cd) == {k \in Keys(cd) : "_id" \notin DOMAIN cd[k]}

CleanComps(cd) == Restrict(cd, Keys(cd) \ SkippedComps(cd))

\* The reaction records that AddQuadReactionNode skips: without id, with a
\* missing or invalid reactant or product list, or with a participant that is
\* no compound of the cleaned compound map; and the map without them
SkippedRxns(cd, rd) ==
    {k \in Keys(rd) :
        \/ ~WellFormedRxn(rd[k])
        \/ ~((ReactantIds(rd[k]) \cup ProductIds(rd[k])) \subseteq
                {cd[c]._id : c \in Keys(CleanComps(cd))})}

CleanRxns(cd, rd) == Restrict(rd, Keys(rd) \ SkippedRxns(cd, rd))

RECURSIVE AddCompounds(_, _, _, _)
AddCompounds(G, cd, todo, start_ids) ==
    IF todo = <<>> THEN G
    ELSE AddCompounds(AddCompoundNode(G, cd[Head(todo)], start_ids), cd, Tail(todo),
                      start_ids)

RECURSIVE AddReactions(_, _, _)
AddReactions(G, rd, todo) ==
    IF todo = <<>> THEN G
    ELSE AddReactions(AddQuadReactionNode(G, rd[Head(todo)]), rd, Tail(todo))

\* The graph that the two loops of ConstructNetwork build from the maps cd and
\* rd with the expanded start set start_ids
BuiltFrom(cd, rd, start_ids) ==
    AddReactions(
        AddCompounds([EmptyGraph EXCEPT !.graph = [mine_data |-> Update(cd, rd)]],
                     cd, Sorted(Keys(cd)), start_ids),
        rd, Sorted(Keys(rd)))

SameNodesAndEdges(G, H) == G.node = H.node /\ G.edge = H.edge

\* C20: ConstructNetwork skips every bad record, and the nodes and edges it
\* returns are those that ConstructNetwork returns for the maps without the
\* skipped records, called with the same start ids and extra KEGG ids.
C20_BadRecordsSkipped ==
    (pc = "built" /\ via_construct) =>
        \A start_ids \in SUBSET StartPool :
            ExpandStartCompIds(comp_dict, start_ids, extra_kegg_ids) = start_comp_ids =>
                SameNodesAndEdges(
                    minetwork,
                    BuiltFrom(CleanComps(comp_dict), CleanRxns(comp_dict, rxn_dict),
                              ExpandStartCompIds(CleanComps(comp_dict), start_ids,
                                                 extra_kegg_ids)))

\* C20, amended: ConstructNetwork skips every bad record, and the nodes and
\* edges it returns are those that its two loops build from the maps without
\* the skipped records with the start set expanded over the whole compound
\* map: no skipped record leaves a node or an edge, and every other record
\* gets the nodes and edges it gets without the skipped ones. The key of a
\* skipped compound record still takes part in the expansion of the start ids.
C20_BadRecordsSkippedAfterExpansion ==
    (pc = "built" /\ via_construct) =>
        /\ SameNodesAndEdges(
               minetwork,
               BuiltFrom(CleanComps(comp_dict), CleanRxns(comp_dict, rxn_dict),
                         start_comp_ids))
        /\ \A n \in DOMAIN minetwork.node :
               minetwork.node[n].mid \in
                   {comp_dict[c]._id : c \in Keys(CleanComps(comp_dict))} \cup
                   {rxn_dict[r]._id : r \in Keys(CleanRxns(comp_dict, rxn_dict))}

\* C20 witness: ConstructNetwork has returned for the maps with one bad compound
\* record and four bad reaction records: the three good compounds and the good
\* reaction R1 have their seven nodes, and the key of the skipped compound is
\* in the start set.
C20_Witness ==
    /\ pc = "built"
    /\ via_construct
    /\ comp_dict = BadComps
    /\ rxn_dict = BadRxns
    /\ SkippedComps(comp_dict) = {C9}
    /\ SkippedRxns(comp_dict, rxn_dict) = {R2, R3, R4, R5}
    /\ Cardinality(DOMAIN minetwork.node) = 7
    /\ RoleOf(minetwork, "pf", R1) # {}
    /\ C9 \in start_comp_ids

\* The reaction has an id and both lists, and one of the lists is empty
HasEmptyList(rxn) ==
    /\ WellFormedRxn(rxn)
    /\ (Len(rxn.Reactants) = 0 \/ Len(rxn.Products) = 0)

\* C21: AddQuadReactionNode skips a reaction whose reactant list or product
\* list is empty: the call adds no node and no edge.
C21_EmptyListSkipped ==
    [][(pc = "reactions" /\ todo_rxns # <<>> /\ HasEmptyList(rxn_dict[Head(todo_rxns)])) =>
            SameNodesAndEdges(minetwork', minetwork)]_vars

\* The number of carbons the program counts for a compound: the count read
\* from the formula, and none for a compound without formula
CarbonCount(comp) == IF "Formula" \in DOMAIN comp THEN C_count(comp.Formula) ELSE 0

\* The three ways of being a start compound
IsSeed(mid) == mid \in start_comp_ids

IsSeedAnalogue(mid) == (<<"C">> \o SubSeq(mid, 2, Len(mid))) \in start_comp_ids

IsInorganicX(comp) == comp._id[1] = "X" /\ CarbonCount(comp) = 0

\* C22: a compound node is marked start=TRUE iff its id is in the seed set, or
\* its id with the first character replaced by 'C' is in the seed set, or its
\* id starts with 'X' and the compound has zero carbons; every other compound
\* node is marked start=FALSE.
C22_StartFlag ==
    pc \in {"compounds", "reactions", "built"} =>
        \A n \in CompoundNodes(minetwork) :
            LET mid == minetwork.node[n].mid
            IN  minetwork.node[n].start =
                    (IsSeed(mid) \/ IsSeedAnalogue(mid) \/ IsInorganicX(comp_dict[mid]))

\* C22 witness: the graph of QuadComps is built with C2 as only seed: C2 is a
\* start node as a seed, X2 (ten carbons) as the analogue of C2, X1 (water) as
\* an inorganic X compound, and C1 and C3 are no start nodes.
C22_Witness ==
    /\ pc = "built"
    /\ comp_dict = QuadComps
    /\ start_comp_ids = {C2}
    /\ \A c \in {C1, C2, C3, X1, X2} : c \in DOMAIN Index(minetwork)
    /\ \A c \in {C2, X1, X2} : minetwork.node[Index(minetwork)[c]].start
    /\ \A c \in {C1, C3} : ~minetwork.node[Index(minetwork)[c]].start
    /\ ~IsSeed(X2) /\ ~IsInorganicX(QuadComps[X2])
    /\ ~IsSeed(X1) /\ ~IsSeedAnalogue(X1)

\* The compound under key c of comp_dict has the KEGG id k among its DB_links
HasKeggId(c, k) ==
    /\ c \in Keys(comp_dict)
    /\ "DB_links" \in DOMAIN comp_dict[c]
    /\ "KEGG" \in DOMAIN comp_dict[c].DB_links
    /\ \E i \in DOMAIN comp_dict[c].DB_links.KEGG : comp_dict[c].DB_links.KEGG[i] = k

\* The compound c shares a KEGG id with a seed of start_comp_ids that is in the
\* compound map, or with one of the extra KEGG ids
SharesKeggId(c) ==
    \E k \in UNION {KeggLinks(comp_dict[x]) : x \in Keys(comp_dict)} :
        /\ HasKeggId(c, k)
        /\ \/ \E s \in start_comp_ids : HasKeggId(s, k)
           \/ \E i \in DOMAIN extra_kegg_ids : extra_kegg_ids[i] = k

\* C23: ExpandStartCompIds returns the given seed set plus exactly the
\* compounds of the compound map that share a KEGG id with a seed present in
\* the map or with an extra KEGG id: every seed stays, also one that the map
\* lacks, and nothing else is added.
C23_ExpandStartCompIds ==
    [][(pc = "construct" /\ via_construct) =>
        /\ start_comp_ids \subseteq start_comp_ids'
        /\ \A c \in Keys(comp_dict) : SharesKeggId(c) => c \in start_comp_ids'
        /\ \A c \in start_comp_ids' \ start_comp_ids :
               c \in Keys(comp_dict) /\ SharesKeggId(c)]_vars

\* C23 witness: the start ids C1 and C00001 were expanded over KeggMineComps
\* with the extra KEGG id C00004: C1, which the map lacks, stays; X490c comes
\* in through C00001, C00004 and C1230 through the extra id; the compounds
\* linked to C00002 and C00003 stay out.
C23_Witness ==
    /\ pc = "compounds"
    /\ via_construct
    /\ comp_dict = KeggMineComps
    /\ extra_kegg_ids = <<C00004>>
    /\ start_comp_ids = {C1, C00001, X490c, C00004, C1230}

\* The roles of the four nodes of a reaction, in the order of their node ids
Roles == <<"rf", "pf", "rr", "pr">>

\* The reactions of rxn_dict whose id is below the id r
RxnsBefore(r) == {q \in Keys(rxn_dict) : StrLess(q, r)}

\* C24: from n well-formed compounds and m reactions whose participants are
\* all in the compound map ConstructNetwork builds exactly n + 4m nodes: the
\* compound nodes are 1..n in the order of their ids, and the reaction that is
\* the i-th in the order of the reaction ids has the nodes n+4(i-1)+1 .. n+4i
\* with the roles rf, pf, rr, pr in this order.
C24_NodeNumbering ==
    (/\ pc = "built"
     /\ SkippedComps(comp_dict) = {}
     /\ SkippedRxns(comp_dict, rxn_dict) = {}) =>
        LET n == Cardinality(Keys(comp_dict))
            m == Cardinality(Keys(rxn_dict))
            node == minetwork.node
        IN  /\ DOMAIN node = 1..(n + 4 * m)
            /\ \A a \in 1..n : node[a].type = "c"
            /\ {node[a].mid : a \in 1..n} = Keys(comp_dict)
            /\ \A a, b \in 1..n : a < b => StrLess(node[a].mid, node[b].mid)
            /\ \A r \in Keys(rxn_dict) : \A q \in 1..4 :
                   LET N == n + 4 * Cardinality(RxnsBefore(r)) + q
                   IN  node[N].type = Roles[q] /\ node[N].mid = rxn_dict[r]._id

\* C24 witness: ConstructNetwork has returned the graph of the 8 compounds and
\* 5 reactions of test_ConstructNetwork: 28 nodes, the last four for Rcd.
C24_Witness ==
    /\ pc = "built"
    /\ via_construct
    /\ comp_dict = Net8Comps
    /\ rxn_dict = Net8Rxns
    /\ Cardinality(DOMAIN minetwork.node) = 28
    /\ minetwork.node[8].mid = C8
    /\ minetwork.node[25].type = "rf" /\ minetwork.node[25].mid = Rcd
    /\ minetwork.node[28].type = "pr" /\ minetwork.node[28].mid = Rcd

\* C39: after any sequence of AddCompoundNode and AddQuadReactionNode calls on
\* a graph that starts empty, the node ids are exactly 1 .. number of nodes:
\* each call gives its new nodes ids that were not in the graph, no node of
\* the graph is overwritten, and a skipped record leaves no gap.
C39_NodeIdsContiguous ==
    [][LET before == DOMAIN minetwork.node
           after == DOMAIN minetwork'.node
       IN  /\ before = 1..Cardinality(before)
           /\ after = 1..Cardinality(after)
           /\ before \subseteq after
           /\ \A n \in before : minetwork'.node[n] = minetwork.node[n]]_vars

\* C39 witness: all calls are made on the 8 compounds and 5 reactions of
\* test_ConstructNetwork, a reaction called before its compounds has been
\* skipped, and reaction nodes stand before a compound node in the numbering.
C39_Witness ==
    /\ pc = "calls"
    /\ todo_comps = <<>> /\ todo_rxns = <<>>
    /\ comp_dict = Net8Comps
    /\ Cardinality(DOMAIN minetwork.node) \in 12..24
    /\ \E a, b \in DOMAIN minetwork.node :
           a < b /\ minetwork.node[a].type = "rf" /\ minetwork.node[b].type = "c"

-----------------------------------------------------------------------------
(* Properties of KeggMineIntegration *)

\* The call has ended, by return or by an exception
KmiEnded == pc \in {"integrated", "raised"}

\* The KEGG-shaped compound nodes of the graph handed to the call
KeggNodes0 ==
    {k \in CompoundNodes(network0) : IsKeggCompId(network0.node[k].mid)}

\* The MINE compound nodes whose record links the KEGG id of node k
MatchingMineNodes0(k) ==
    {m \in CompoundNodes(network0) :
        /\ IsMineCompId(network0.node[m].mid)
        /\ "mine_data" \in DOMAIN network0.graph
        /\ network0.node[m].mid \in DOMAIN network0.graph.mine_data
        /\ network0.node[k].mid \in
               KeggLinks(network0.graph.mine_data[network0.node[m].mid])}

\* C9: after KeggMineIntegration, every KEGG-shaped compound node k with a
\* matching MINE node is gone from the graph, and every connected matching MINE
\* node m has an edge p -> m for each former predecessor p of k and an edge
\* m -> s for each former successor s of k.
C9_EdgesTransplanted ==
    KmiEnded =>
        \A k \in KeggNodes0 :
            MatchingMineNodes0(k) # {} =>
                /\ k \notin DOMAIN minetwork.node
                /\ \A m \in MatchingMineNodes0(k) :
                       IsConnectedMineComp(network0.node[m].mid, network0) =>
                           /\ \A p \in predecessors(network0, k) :
                                  <<p, m>> \in minetwork.edge
                           /\ \A s \in successors(network0, k) :
                                  <<m, s>> \in minetwork.edge

\* C10: after KeggMineIntegration, the nodes removed from the graph are exactly
\* the KEGG-shaped compound nodes that have a matching MINE node, and a
\* KEGG-shaped node without match keeps all its edges.
C10_RemovesExactlyMatchedKegg ==
    KmiEnded =>
        /\ (DOMAIN network0.node) \ (DOMAIN minetwork.node)
               = {k \in KeggNodes0 : MatchingMineNodes0(k) # {}}
        /\ \A k \in KeggNodes0 :
               MatchingMineNodes0(k) = {} =>
                   /\ predecessors(minetwork, k) = predecessors(network0, k)
                   /\ successors(minetwork, k) = successors(network0, k)

\* The MINE compound nodes of graph G whose record links the KEGG id of node k
MatchingMineNodes(G, k) ==
    {m \in CompoundNodes(G) :
        /\ IsMineCompId(G.node[m].mid)
        /\ "mine_data" \in DOMAIN G.graph
        /\ G.node[m].mid \in DOMAIN G.graph.mine_data
        /\ G.node[k].mid \in KeggLinks(G.graph.mine_data[G.node[m].mid])}

HasMineData(G) == "mine_data" \in DOMAIN G.graph

\* C27: mine_data is never modified after ConstructNetwork has created it, and
\* the caller's compound and reaction maps are never modified: every step of
\* the build (AddCompoundNode, AddQuadReactionNode with CheckConnection) and of
\* KeggMineIntegration leaves each record as it is; mine_data holds the records
\* of the two maps.
C27_MineDataUnchanged ==
    [][/\ comp_dict' = comp_dict
       /\ rxn_dict' = rxn_dict
       /\ HasMineData(minetwork) =>
              /\ HasMineData(minetwork')
              /\ minetwork'.graph.mine_data = minetwork.graph.mine_data
       /\ HasMineData(minetwork') =>
              /\ Keys(minetwork'.graph.mine_data) = Keys(comp_dict) \cup Keys(rxn_dict)
              /\ \A k \in Keys(comp_dict) \ Keys(rxn_dict) :
                     minetwork'.graph.mine_data[k] = comp_dict[k]
              /\ \A k \in Keys(rxn_dict) : minetwork'.graph.mine_data[k] = rxn_dict[k]]_vars

\* C27 witness: KeggMineIntegration has run on the graph that ConstructNetwork
\* built from the KEGG and MINE records, with reaction nodes and their attested
\* edges in place, and mine_data holds all twelve records.
C27_Witness ==
    /\ KmiEnded
    /\ via_construct
    /\ comp_dict = KeggMineComps
    /\ RoleNodes(minetwork) # {}
    /\ \E e \in minetwork.edge :
           e[1] \in CompoundNodes(minetwork) /\ e[2] \in RoleNodes(minetwork)
    /\ HasMineData(minetwork)
    /\ Cardinality(Keys(minetwork.graph.mine_data)) = 12

\* The MINE nodes that match the KEGG node k and are not connected: their
\* record has neither Reactant_in nor Product_of
UnconnectedMatches0(k) ==
    {m \in MatchingMineNodes0(k) : ~IsConnectedMineComp(network0.node[m].mid, network0)}

\* C28: a matching MINE node that is not connected receives no edge from
\* KeggMineIntegration: its predecessors and successors are those it had before
\* the call, while the KEGG node it matches is removed.
C28_UnconnectedMineNode ==
    KmiEnded =>
        \A k \in KeggNodes0 : \A m \in UnconnectedMatches0(k) :
            /\ predecessors(minetwork, m) = predecessors(network0, m)
            /\ successors(minetwork, m) = successors(network0, m)
            /\ k \notin DOMAIN minetwork.node

\* C29: after KeggMineIntegration the member set c of every reaction role node
\* holds only compound nodes that are in the graph: a KEGG node with a matching
\* MINE node, which the call removes, is in no member set any more, and a
\* member set that held it holds a matching MINE node instead.
C29_MembersReplaced ==
    KmiEnded =>
        \A n \in RoleNodes(minetwork) :
            /\ minetwork.node[n].c \subseteq CompoundNodes(minetwork)
            /\ \A k \in KeggNodes0 :
                   (MatchingMineNodes0(k) # {} /\ k \in network0.node[n].c) =>
                       /\ k \notin minetwork.node[n].c
                       /\ minetwork.node[n].c \cap MatchingMineNodes0(k) # {}

-----------------------------------------------------------------------------
(* Properties of GetComp and GetRxn *)

\* C13: GetComp and GetRxn stop retrying at the attempt limit: once n has
\* reached the limit of 36 the wrapper is out of its retry loop (and returns
\* None), so that a repository failing on every attempt cannot hold it forever.
C13_StopsAtAttemptLimit ==
    fetch_n >= AttemptLimit => fetch_pc # "try"

-----------------------------------------------------------------------------
(* Properties of QuickSearch *)

\* C32: QuickSearch always returns and never raises. Every pass of its loop
\* either returns the server's result, or returns the empty list at once on a
\* ServerError without counting an attempt, or counts one attempt on another
\* exception, and then returns the empty list exactly when that attempt is
\* the 36th: the loop is never entered with 36 attempts counted.
C32_QuickSearch ==
    [][fetch_fn = "QuickSearch" =>
          /\ fetch_pc = "try"
          /\ fetch_n < AttemptLimit
          /\ \/ /\ fetch_pc' = "returned"
                /\ fetch_n' = fetch_n
                /\ fetch_results'.kind = "answer"
                /\ fetch_results'.val \in QuickAnswers(fetch_id)
             \/ /\ fetch_pc' = "returned"
                /\ fetch_n' = fetch_n
                /\ fetch_results'.kind = "initial"
                /\ fetch_results'.val = <<>>
             \/ /\ fetch_n' = fetch_n + 1
                /\ fetch_results'.kind = "initial"
                /\ fetch_results'.val = <<>>
                /\ fetch_pc' = IF fetch_n' = AttemptLimit THEN "returned" ELSE "try"]_vars

\* C32 witness: every attempt has raised an exception other than ServerError
\* and QuickSearch has returned the empty list after the 36th.
C32_Witness ==
    /\ fetch_fn = "QuickSearch"
    /\ fetch_pc = "returned"
    /\ fetch_n = AttemptLimit
    /\ fetch_results.val = <<>>

-----------------------------------------------------------------------------
(* Properties of ThreadedGetComps *)

\* [GetComp(con, db, comp_id) for comp_id in comp_id_list]
SequentialResults ==
    [i \in DOMAIN batch_id_list |-> GetCompResult(batch_id_list[i])]

Count(list, v) == Cardinality({i \in DOMAIN list : list[i] = v})

SameMultiset(a, b) ==
    /\ Len(a) = Len(b)
    /\ \A i \in DOMAIN a : Count(a, a[i]) = Count(b, a[i])

\* work.join() has returned
BarrierReleased == main_pc \in {"stop", "join_threads", "drain", "returned"}

\* C14: when work.join() releases, every id of the batch has been put, taken
\* and processed by a worker: no id is left in the work queue, no worker holds
\* an id or a result, and the results deposited are, as a multiset, the
\* sequential results, one per input id; the list returned is that multiset.
C14_BarrierAndExactResults ==
    /\ BarrierReleased =>
           /\ batch_todo = <<>>
           /\ \A i \in DOMAIN work : work[i] = None
           /\ \A w \in 1..MaxWorkers : w_pc[w] \in {"get", "exit"}
           /\ SameMultiset(batch_comps \o output, SequentialResults)
    /\ main_pc = "returned" => SameMultiset(batch_comps, SequentialResults)

\* C14 witness: a batch of two ids, one of them absent from the database, has
\* returned its two results in the order opposite to the ids.
C14_Witness ==
    /\ main_pc = "returned"
    /\ Len(batch_id_list) = 2
    /\ None \in Range(batch_comps)
    /\ batch_comps[1] = GetCompResult(batch_id_list[2])
    /\ batch_comps[1] # GetCompResult(batch_id_list[1])

\* The None sentinels in the work queue
Sentinels == {i \in DOMAIN work : work[i] = None}

\* The workers that have left their loop
Exited == {w \in 1..MaxWorkers : w_pc[w] = "exit"}

\* Every id of the batch has been put, taken and marked done
AllWorkDone ==
    /\ batch_todo = <<>>
    /\ \A i \in DOMAIN work : work[i] = None
    /\ \A w \in 1..MaxWorkers : w_pc[w] \in {"get", "exit"}
    /\ Len(output) + Len(batch_comps) = Len(batch_id_list)

\* C33: when a threaded batch call returns, every worker thread has ended.
\* One None sentinel is queued per worker, and only after every real work item
\* is done; each worker that has ended has taken exactly one sentinel; no
\* worker ends while a real work item is unprocessed. This holds for every
\* batch, the empty one and those smaller than the number of workers included.
C33_PoisonPillShutdown ==
    /\ stops <= MaxWorkers
    /\ Cardinality(Sentinels) + Cardinality(Exited) = stops
    /\ (stops > 0 \/ Exited # {}) => AllWorkDone
    /\ main_pc \in {"join_threads", "drain", "returned"} => stops = MaxWorkers
    /\ main_pc \in {"drain", "returned"} => Exited = 1..MaxWorkers /\ work = <<>>

\* C33 witness: a batch of one id, fewer than the workers, has returned.
C33_Witness ==
    /\ kegg_fn = ""
    /\ main_pc = "returned"
    /\ Len(batch_id_list) = 1
    /\ Len(batch_id_list) < MaxWorkers
    /\ Exited = 1..MaxWorkers

-----------------------------------------------------------------------------
(* Properties of AllowReactionListing and SortKeggReactions *)

\* The list `key` of the compound record holds the id
InListing(comp, key, id) ==
    key \in DOMAIN comp /\ \E i \in DOMAIN comp[key] : comp[key][i] = id

\* The compound under key c lists the reaction under key r in Reactions,
\* AllowReactionListing lets the listing pass, and c is a participant of r on
\* the side `side` ("Reactants" or "Products")
Qualifies(c, r, side) ==
    LET comp == kegg_comp_dict[c]
        rxn == kegg_rxn_dict[r]
    IN  /\ InListing(comp, "Reactions", r)
        /\ AllowReactionListing(comp, rxn)
        /\ side \in DOMAIN rxn
        /\ \E i \in DOMAIN rxn[side] : rxn[side][i][2] = c

\* The list `key` of every compound holds exactly the ids of the reactions
\* that qualify on the side `side`, and is missing when there is none
SortedInto(key, side) ==
    \A c \in Keys(kegg_comp_dict) :
        LET comp == kegg_comp_dict[c]
        IN  /\ \A r \in Keys(kegg_rxn_dict) :
                   InListing(comp, key, kegg_rxn_dict[r]._id) <=> Qualifies(c, r, side)
            /\ key \in DOMAIN comp =>
                   /\ comp[key] # <<>>
                   /\ \A i \in DOMAIN comp[key] :
                          \E r \in Keys(kegg_rxn_dict) :
                              kegg_rxn_dict[r]._id = comp[key][i] /\ Qualifies(c, r, side)

\* C25: after SortKeggReactions the id of r is in Reactant_in of c iff c lists r
\* in Reactions, r is in the reaction dictionary, AllowReactionListing(c, r)
\* holds and c is a reactant of r, and likewise Product_of with the products; a
\* listed reaction that the dictionary lacks is skipped, and a compound
\* without qualifying reaction has no Reactant_in / Product_of key.
C25_SortKeggReactions ==
    sort_pc = "done" =>
        SortedInto("Reactant_in", "Reactants") /\ SortedInto("Product_of", "Products")

\* C25 witness: SortKeggReactions has returned on the dictionaries of
\* test_SortKeggReactions with the expected result of the test: C1 is a
\* reactant of R1 (and a cofactor in R2), C3 a reactant of R5 and a product of
\* R6, C4 a product of R5 (its RX is missing), and C2, C5, C6 have no list.
C25_Witness ==
    /\ sort_pc = "done"
    /\ kegg_rxn_dict = TestKeggRxns
    /\ kegg_comp_dict[C1] = Put(TestKeggComps[C1], "Reactant_in", <<R1>>)
    /\ kegg_comp_dict[C3] = Put(Put(TestKeggComps[C3], "Reactant_in", <<R5>>),
                                "Product_of", <<R6>>)
    /\ kegg_comp_dict[C4] = Put(TestKeggComps[C4], "Product_of", <<R5>>)
    /\ \A c \in {C2, C5, C6} : kegg_comp_dict[c] = TestKeggComps[c]

\* The two compound ids that the pair name "a_b" is made of
PairMembers(name) ==
    LET k == CHOOSE i \in DOMAIN name : name[i] = "_"
    IN  {SubSeq(name, 1, k - 1), SubSeq(name, k + 1, Len(name))}

\* The compound is a member of a pair of the reaction that is tagged 'cofac'
\* or is the pair RP00003
InCofactorPair(comp, rxn) ==
    /\ "RPair" \in DOMAIN rxn
    /\ \E rp \in DOMAIN rxn.RPair :
           /\ comp._id \in PairMembers(rxn.RPair[rp][1])
           /\ (rxn.RPair[rp][2] = "cofac" \/ rp = "RP00003")

MayBeListed(comp, rxn) ==
    ~ \/ CarbonCount(comp) = 0
      \/ comp._id = C00011
      \/ comp._id \in {C00010, C00229}
      \/ InCofactorPair(comp, rxn)

\* C26: AllowReactionListing returns False iff the compound has zero carbons,
\* is CO2, CoA or ACP, is a member of a pair tagged 'cofac' or a member of the
\* pair RP00003, and True in every other case.
C26_AllowReactionListing ==
    allow_call # None =>
        allow_call.result = MayBeListed(kegg_comp_dict[allow_call.comp],
                                        kegg_rxn_dict[allow_call.rxn])

\* On KEGG ids, which all have the same length, the return value is as C26
\* says: an id is a substring of a pair name only as one of its two members.
AllowReactionListing_OnKeggIds ==
    (allow_call # None /\ \A c \in Keys(kegg_comp_dict) : IsKeggCompId(c)) =>
        allow_call.result = MayBeListed(kegg_comp_dict[allow_call.comp],
                                        kegg_rxn_dict[allow_call.rxn])

\* AllowReactionListing has returned False for ATP in a reaction whose pair
\* RP00003 is tagged 'ligase', and the dictionaries hold KEGG ids.
AllowReactionListing_OnKeggIds_Witness ==
    /\ allow_call = [comp |-> C00002, rxn |-> R00001, result |-> FALSE]
    /\ kegg_comp_dict[C00002].Formula # <<>>

-----------------------------------------------------------------------------
(* Properties of GetKeggComps, GetKeggRxns and GetRawKegg *)

\* The main thread waits in work.join() for a task that no thread will mark
\* done: the queue is empty and every worker waits for an id or has ended
KeggBlocked ==
    /\ main_pc = "join"
    /\ unfinished_tasks > 0
    /\ work = <<>>
    /\ \A w \in 1..MaxWorkers : w_pc[w] \in {"get", "crashed"}

\* C30: a failed download of one id never blocks the batch: GetKeggComps and
\* GetKeggRxns never wait for ever in work.join(), they return one entry per
\* id, None for an id that could not be downloaded, and GetRawKegg keeps the
\* entries that are records.
C30_FailedDownloadNeverBlocks ==
    /\ ~KeggBlocked
    /\ main_pc = "returned" => Len(batch_comps) = Len(batch_id_list)
    /\ raw_pc = "done" =>
           /\ None \notin Range(kegg_dict_out)
           /\ Range(kegg_dict_out) = Range(batch_comps) \ {None}

\* The GetKeggText call of worker w has returned
GetKeggTextReturned(w) == kegg_fn # "" /\ w_pc[w] \in {"format", "task_done", "crashed"}

\* C31: GetKeggText issues at most 5 requests; for a reaction or compound id it
\* returns the body of the first response with status 200, every response
\* before it being another status, and returns None with the warning 'Unable
\* to download' exactly when its 5 responses are all another status; for any
\* other id it returns None with the warning 'not a valid id' and issues no
\* request.
C31_GetKeggText ==
    \A w \in 1..MaxWorkers :
        /\ Len(w_responses[w]) <= RequestLimit
        /\ GetKeggTextReturned(w) =>
               LET rs == w_responses[w]
                   kegg_id == w_item[w]
               IN  IF IsKeggId("R", kegg_id) \/ IsKeggId("C", kegg_id)
                   THEN /\ rs # <<>>
                        /\ \A i \in 1..(Len(rs) - 1) : ~rs[i]
                        /\ rs[Len(rs)] =>
                               /\ w_text[w] = KeggServer[kegg_id]
                               /\ w_warning[w] = ""
                        /\ ~rs[Len(rs)] =>
                               /\ Len(rs) = RequestLimit
                               /\ w_text[w] = None
                               /\ w_warning[w] = "Unable to download KEGG data"
                   ELSE /\ rs = <<>>
                        /\ w_text[w] = None
                        /\ w_warning[w] = "not a valid KEGG reaction or compound ID"

\* C31 witness: one call has returned None after five responses other than
\* 200, another has returned the record from its fifth response.
C31_Witness ==
    \E w, v \in 1..MaxWorkers :
        /\ GetKeggTextReturned(w) /\ GetKeggTextReturned(v)
        /\ Len(w_responses[w]) = RequestLimit /\ w_text[w] = None
        /\ Len(w_responses[v]) = RequestLimit /\ w_text[v] # None

====
